---- MODULE Spec2Model ----
(***************************************************************************)
(* The conversation-forest engine of the flow canvas: the local message    *)
(* set kept by useConversation, the server rows behind it, subtree         *)
(* deletion, the context aggregator, the cycle guard and the label         *)
(* generator.                                                              *)
(*                                                                         *)
(* A message is a record [id, parent_id, created_at]; role and content do  *)
(* not take part in any of the algorithms modelled here and are left out.  *)
(* Ids are the naturals 1, 2, ... in the order the server hands them out;  *)
(* parent_id = NoParent stands for null.  created_at is the server clock   *)
(* in milliseconds, which never runs backwards but may give two rows the   *)
(* same value.                                                             *)
(***************************************************************************)
EXTENDS Integers, Sequences, FiniteSets, TLC

VARIABLES
    db,            \* server: the rows of table messages
    dbRefs,        \* server: the rows of table message_references, <<source, target>>
    nextId,        \* server: the next id handed out
    clock,         \* server: the current time
    messages,      \* useConversation: const [messages, setMessages]
    references,    \* useConversation: const [references, setReferences]
    deleting,      \* the deleteMessage call awaiting its response, or NoCall
    deleteEvents,  \* postgres_changes DELETE events not yet delivered
    isLoading,     \* page.tsx: const [isLoading, setIsLoading], true while handleSend runs
    llmRequest,    \* the ids behind the messages of the callLLM request in flight
    excluded,      \* Context Lens: the ids whose isIncluded toggle is off
    call,          \* the call of a pure function in progress: arguments and result
    flowNodes,          \* page.tsx: const [nodes, setNodes], the placed nodes
    prevMessageCount,   \* page.tsx: prevMessageCountRef
    hasInitialLayout,   \* page.tsx: hasInitialLayoutRef
    streamingMessages,  \* page.tsx: const [streamingMessages, setStreamingMessages]
    provisional,        \* handleSend: assistantMsg of the send in progress, or NoCall
    canvasNodes,        \* builder page: const [nodes, setNodes] of each participant
    canvasEdges,        \* builder page: const [edges, setEdges] of each participant
    inbox,              \* broadcasts of the channel not yet handled, per participant
    now,                \* Date.now()
    status,             \* useCanvasCollaboration: where each participant's channel is
    cursorThrottled,    \* useCanvasCollaboration: Date.now() - lastCursorUpdateRef.current < cursorThrottleMs
    pendingCursorRef,   \* useCanvasCollaboration: pendingCursorRef.current
    presenceCursor,     \* the cursor of the presence record last passed to channel.track
    lastSample,         \* the argument of the last call of updateCursor by the page
    lastMessages,       \* the messages dependency of the last run of the messages-to-nodes effect
    conversationId,     \* useConversation: the conversationId the hook is called with, 0 for null
    conversation,       \* useConversation: the id of the conversation row held, 0 for null
    nodePositions,      \* useConversation: nodePositions, message id to position
    loads,              \* the calls of loadConversation waiting for a response
    conversationLoading,\* useConversation: isLoading
    loadError,          \* useConversation: error is set
    history,            \* page.tsx: history, the saved states of the nodes
    historyIndex,       \* page.tsx: historyIndex
    historyIndexRef,    \* page.tsx: historyIndexRef.current
    isUndoRedoRef       \* page.tsx: isUndoRedoRef.current

\* the state of the canvas of page.tsx
canvas == <<flowNodes, prevMessageCount, hasInitialLayout>>

\* the streaming state of page.tsx
stream == <<streamingMessages, provisional>>

\* the planning canvas shared through useCanvasCollaboration
collab == <<canvasNodes, canvasEdges, inbox, now, status>>

\* the cursor state of useCanvasCollaboration and of the page
cursorRefs == <<cursorThrottled, pendingCursorRef, presenceCursor, lastSample>>

\* what React keeps of the last run of the messages-to-nodes effect
effectRefs == <<lastMessages>>

\* useConversation: the selected conversation, what is held of it and the loads in flight
loadRefs == <<conversationId, conversation, nodePositions, loads, conversationLoading, loadError>>

\* page.tsx: the undo history of the canvas
historyRefs == <<history, historyIndex, historyIndexRef, isUndoRedoRef>>

\* the refs and the state of the hooks beside the forest and the canvas graph
hookState == <<cursorRefs, effectRefs, loadRefs, historyRefs>>

vars == <<db, dbRefs, nextId, clock, messages, references, deleting,
          deleteEvents, isLoading, llmRequest, excluded, call, canvas, stream,
          collab, hookState>>

(***************************************************************************)
(* Bounds of the model.                                                    *)
(***************************************************************************)
MaxNodes == 3      \* messages ever created
MaxRefs == 2       \* length of a list of referenced ids
MaxColumns == 2    \* columns dagre may use for the nodes of one rank
MaxBlocks == 2     \* block ids generateId may return
MaxTime == 3       \* canvas updates ever broadcast on the channel
MaxTrees == 27     \* roots of an array of SpecTrees, enough for the letters to wrap
MaxReplies == 2    \* replies in an array of SpecTrees
MaxTreeNodes == 5  \* messages of an array of SpecBreadth
MaxConversations == 2  \* conversations the user switches between

NoParent == 0
Undefined == [id |-> 0, parent_id |-> NoParent, created_at |-> 0]
NoCall == [fn |-> "none"]

\* the users editing one canvas
Participants == {"a", "b"}
\* cursor: null, sent when the pointer leaves the canvas
NullCursor == 0
\* the positions { x, y } of the pointer on the canvas
CursorPositions == {1, 2}
\* positions a block is dropped at (a new block is at 0), titles typed into
\* the block editor (a new block has title 0)
Positions == {0, 1}
Titles == {1}

Msg(i, p, t) == [id |-> i, parent_id |-> p, created_at |-> t]

Ids(msgs) == {msgs[i].id : i \in DOMAIN msgs}

IdsOf(msgs) == [i \in DOMAIN msgs |-> msgs[i].id]

Reverse(s) == [i \in 1..Len(s) |-> s[Len(s) + 1 - i]]

\* const map = new Map(); for (const m of messages) map.set(m.id, m); map.get(id)
messagesById(msgs, id) ==
    IF \E i \in DOMAIN msgs : msgs[i].id = id
    THEN msgs[CHOOSE i \in DOMAIN msgs :
                  /\ msgs[i].id = id
                  /\ \A j \in DOMAIN msgs : msgs[j].id = id => j <= i]
    ELSE Undefined

\* messages.filter((m) => m.parent_id === id), in array order
ChildrenOf(msgs, id) == SelectSeq(msgs, LAMBDA m : m.parent_id = id)

(***************************************************************************)
(* Array.prototype.sort by created_at: a stable sort.                      *)
(***************************************************************************)
InsertSorted(sorted, m) ==
    LET k == Cardinality({i \in DOMAIN sorted : sorted[i].created_at <= m.created_at})
    IN SubSeq(sorted, 1, k) \o <<m>> \o SubSeq(sorted, k + 1, Len(sorted))

RECURSIVE SortByCreatedAt(_)
SortByCreatedAt(s) ==
    IF s = <<>> THEN <<>>
    ELSE InsertSorted(SortByCreatedAt(SubSeq(s, 1, Len(s) - 1)), s[Len(s)])

(***************************************************************************)
(* types.ts: getAncestry and wouldCreateCircle.                            *)
(***************************************************************************)
\* while (current && !visited.has(current.id)) { visited.add; chain.push; current = parent }
RECURSIVE AncestryChain(_, _, _, _)
AncestryChain(msgs, current, visited, chain) ==
    IF current = Undefined \/ current.id \in visited
    THEN chain
    ELSE AncestryChain(msgs,
                       IF current.parent_id # NoParent
                       THEN messagesById(msgs, current.parent_id)
                       ELSE Undefined,
                       visited \cup {current.id},
                       Append(chain, current))

\* variant: the chain is returned as walked, from the node up (no chain.reverse())
getAncestryUnreversed(msgs, nodeId) ==
    AncestryChain(msgs, messagesById(msgs, nodeId), {}, <<>>)

getAncestry(msgs, nodeId) ==
    Reverse(AncestryChain(msgs, messagesById(msgs, nodeId), {}, <<>>))

\* variant: only the immediate parent of fromId is looked at
wouldCreateCircleParentOnly(msgs, fromId, toId) ==
    /\ messagesById(msgs, fromId) # Undefined
    /\ messagesById(msgs, fromId).parent_id # NoParent
    /\ messagesById(msgs, fromId).parent_id = toId

\* variant: the chain is searched without its first element, fromId itself
wouldCreateCircleStrict(msgs, fromId, toId) ==
    LET ancestry == getAncestry(msgs, fromId)
    IN \E i \in DOMAIN ancestry : ancestry[i].id = toId /\ ancestry[i].id # fromId

wouldCreateCircle(msgs, fromId, toId) ==
    LET ancestry == getAncestry(msgs, fromId)
    IN \E i \in DOMAIN ancestry : ancestry[i].id = toId

(***************************************************************************)
(* page.tsx: getContextMessages.  The visited set is shared by the         *)
(* ancestry walk and by every tree expansion.                              *)
(***************************************************************************)
\* variant: a reference that names no message falls back to the first message
RECURSIVE ResolveRootOrFirst(_, _)
ResolveRootOrFirst(msgs, root) ==
    IF root = Undefined
    THEN IF msgs = <<>> THEN root ELSE ResolveRootOrFirst(msgs, msgs[1])
    ELSE IF root.parent_id # NoParent
         THEN ResolveRootOrFirst(msgs, messagesById(msgs, root.parent_id))
         ELSE root

\* let root = messagesById.get(refId); while (root?.parent_id) root = messagesById.get(root.parent_id)
RECURSIVE ResolveRoot(_, _)
ResolveRoot(msgs, root) ==
    IF root # Undefined /\ root.parent_id # NoParent
    THEN ResolveRoot(msgs, messagesById(msgs, root.parent_id))
    ELSE root

\* variant: the expansion without `if (visited.has(id)) continue`
RECURSIVE ExpandTreeNoVisited(_, _, _, _)
ExpandTreeNoVisited(msgs, queue, visited, out) ==
    IF queue = <<>> THEN [visited |-> visited, out |-> out]
    ELSE LET id == Head(queue)
             msg == messagesById(msgs, id)
         IN IF msg # Undefined
            THEN ExpandTreeNoVisited(msgs, Tail(queue) \o IdsOf(ChildrenOf(msgs, id)),
                                     visited \cup {id}, Append(out, msg))
            ELSE ExpandTreeNoVisited(msgs, Tail(queue), visited \cup {id}, out)

\* const queue = [root.id]; while (queue.length > 0) { ... }
RECURSIVE ExpandTree(_, _, _, _)
ExpandTree(msgs, queue, visited, out) ==
    IF queue = <<>> THEN [visited |-> visited, out |-> out]
    ELSE LET id == Head(queue)
             msg == messagesById(msgs, id)
         IN IF id \in visited THEN ExpandTree(msgs, Tail(queue), visited, out)
            ELSE IF msg # Undefined
                 THEN ExpandTree(msgs, Tail(queue) \o IdsOf(ChildrenOf(msgs, id)),
                                 visited \cup {id}, Append(out, msg))
                 ELSE ExpandTree(msgs, Tail(queue), visited \cup {id}, out)

\* for (const refId of branchRefs) { ... if (root) { expand } }
RECURSIVE AddReferencedBranches(_, _, _, _)
AddReferencedBranches(msgs, branchRefs, visited, out) ==
    IF branchRefs = <<>> THEN out
    ELSE LET root == ResolveRoot(msgs, messagesById(msgs, Head(branchRefs)))
             r == IF root # Undefined
                  THEN ExpandTree(msgs, <<root.id>>, visited, out)
                  ELSE [visited |-> visited, out |-> out]
         IN AddReferencedBranches(msgs, Tail(branchRefs), r.visited, r.out)

\* the inline getAncestry of getContextMessages is the walk of types.ts with the
\* shared visited set: after it, visited holds the ids of the chain
getContextMessages(msgs, nodeId, branchRefs) ==
    LET ancestry == getAncestry(msgs, nodeId)
    IN SortByCreatedAt(AddReferencedBranches(msgs, branchRefs, Ids(ancestry), ancestry))

(***************************************************************************)
(* types.ts: generateShortLabels.  A short label `${letter}${nodeIndex}`   *)
(* is the pair <<char code of the letter, nodeIndex>>: one capital letter  *)
(* followed by a decimal number determines both.                           *)
(***************************************************************************)
NoLabels == [labels |-> <<>>, treeLabels |-> <<>>, treeIndices |-> <<>>]

\* String.fromCharCode(65 + treeIndex), the letter without the wrap
LetterOfUnwrapped(treeIndex) == 65 + treeIndex

\* String.fromCharCode(65 + (treeIndex % 26))
LetterOf(treeIndex) == 65 + (treeIndex % 26)

\* the walk of one root with the children put at the front of the queue
RECURSIVE LabelTreeDepthFirst(_, _, _, _, _, _)
LabelTreeDepthFirst(msgs, queue, visited, nodeIndex, treeIndex, out) ==
    IF queue = <<>> THEN out
    ELSE LET nodeId == Head(queue)
             children == SortByCreatedAt(ChildrenOf(msgs, nodeId))
         IN IF nodeId \in visited
            THEN LabelTreeDepthFirst(msgs, Tail(queue), visited, nodeIndex, treeIndex, out)
            ELSE LabelTreeDepthFirst(msgs, IdsOf(children) \o Tail(queue),
                           visited \cup {nodeId}, nodeIndex + 1, treeIndex,
                           [labels |-> (nodeId :> <<LetterOf(treeIndex), nodeIndex>>) @@ out.labels,
                            treeLabels |-> (nodeId :> LetterOf(treeIndex)) @@ out.treeLabels,
                            treeIndices |-> (nodeId :> treeIndex) @@ out.treeIndices])

\* the BFS of one root: queue, visited, nodeIndex and the three maps
RECURSIVE LabelTree(_, _, _, _, _, _)
LabelTree(msgs, queue, visited, nodeIndex, treeIndex, out) ==
    IF queue = <<>> THEN out
    ELSE LET nodeId == Head(queue)
             children == SortByCreatedAt(ChildrenOf(msgs, nodeId))
         IN IF nodeId \in visited
            THEN LabelTree(msgs, Tail(queue), visited, nodeIndex, treeIndex, out)
            ELSE LabelTree(msgs, Tail(queue) \o IdsOf(children),
                           visited \cup {nodeId}, nodeIndex + 1, treeIndex,
                           [labels |-> (nodeId :> <<LetterOf(treeIndex), nodeIndex>>) @@ out.labels,
                            treeLabels |-> (nodeId :> LetterOf(treeIndex)) @@ out.treeLabels,
                            treeIndices |-> (nodeId :> treeIndex) @@ out.treeIndices])

\* roots.forEach((root, treeIndex) => { ... })
RECURSIVE LabelRoots(_, _, _, _)
LabelRoots(msgs, roots, treeIndex, out) ==
    IF treeIndex >= Len(roots) THEN out
    ELSE LabelRoots(msgs, roots, treeIndex + 1,
                    LabelTree(msgs, <<roots[treeIndex + 1].id>>, {}, 1, treeIndex, out))

generateShortLabels(msgs) ==
    LET roots == SelectSeq(msgs, LAMBDA m : m.parent_id = NoParent)
    IN LabelRoots(msgs, roots, 0, NoLabels)

(***************************************************************************)
(* useConversation.ts: deleteMessage, the part after the server's answer.  *)
(* closure is the messages array the callback was created with; prev is    *)
(* the state at the time setMessages runs.                                 *)
(***************************************************************************)
RECURSIVE collectDescendants(_, _)
collectDescendants(closure, messageId) ==
    {messageId} \cup
    UNION {collectDescendants(closure, c) : c \in Ids(ChildrenOf(closure, messageId))}

\* setMessages((prev) => prev.filter((m) => !toDelete.has(m.id)))
RemoveFromLocal(prev, toDelete) == SelectSeq(prev, LAMBDA m : m.id \notin toDelete)

(***************************************************************************)
(* The server: table messages with ON DELETE CASCADE on parent_id, table   *)
(* message_references, the clock that stamps created_at.                   *)
(***************************************************************************)
DbIds == {r.id : r \in db}

RECURSIVE DbSubtree(_)
DbSubtree(id) ==
    {id} \cup UNION {DbSubtree(r.id) : r \in {x \in db : x.parent_id = id}}

Times == {clock, clock + 1}

\* DELETE /api/messages/[id]: the row, its descendants, their references
ServerDelete(id) ==
    LET gone == DbSubtree(id) \cap DbIds
    IN /\ db' = {r \in db : r.id \notin gone}
       /\ dbRefs' = {e \in dbRefs : e[1] \notin gone /\ e[2] \notin gone}
       /\ deleteEvents' = deleteEvents \cup gone

\* GET /api/conversations/[id]: .order("created_at", { ascending: true })
LoadedOrders ==
    {s \in [1..Cardinality(db) -> db] :
        /\ \A i, j \in DOMAIN s : i < j => s[i].created_at <= s[j].created_at
        /\ \A i, j \in DOMAIN s : i # j => s[i] # s[j]}

(***************************************************************************)
(* Initial state: a conversation is selected and holds no message.         *)
(***************************************************************************)
Init ==
    /\ db = {}
    /\ dbRefs = {}
    /\ nextId = 1
    /\ clock = 1
    /\ messages = <<>>
    /\ references = {}
    /\ deleting = NoCall
    /\ deleteEvents = {}
    /\ isLoading = FALSE
    /\ llmRequest = <<>>
    /\ excluded = {}
    /\ call = NoCall
    /\ flowNodes = <<>>
    /\ prevMessageCount = 0
    /\ hasInitialLayout = FALSE
    /\ streamingMessages = <<>>
    /\ provisional = NoCall
    /\ canvasNodes = [p \in Participants |-> <<>>]
    /\ canvasEdges = [p \in Participants |-> <<>>]
    /\ inbox = [p \in Participants |-> <<>>]
    /\ now = 1
    /\ status = [p \in Participants |-> "connecting"]
    /\ cursorThrottled = [p \in Participants |-> FALSE]
    /\ pendingCursorRef = [p \in Participants |-> NullCursor]
    /\ presenceCursor = [p \in Participants |-> NullCursor]
    /\ lastSample = [p \in Participants |-> NullCursor]
    /\ lastMessages = <<>>
    /\ conversationId = 0
    /\ conversation = 0
    /\ nodePositions = <<>>
    /\ loads = {}
    /\ conversationLoading = TRUE
    /\ loadError = FALSE
    /\ history = <<>>
    /\ historyIndex = 0 - 1
    /\ historyIndexRef = 0 - 1
    /\ isUndoRedoRef = FALSE

(***************************************************************************)
(* Another session inserts a row; the postgres_changes INSERT handler      *)
(* appends it and sorts the array.                                         *)
(***************************************************************************)
\* (payload) => setMessages((prev) => prev.some(...) ? prev : [...prev, newMessage].sort(...))
OnRealtimeInsert(prev, newMessage) ==
    IF \E i \in DOMAIN prev : prev[i].id = newMessage.id
    THEN prev
    ELSE SortByCreatedAt(Append(prev, newMessage))

RemoteInsert(p, t) ==
    /\ nextId <= MaxNodes
    /\ p \in {NoParent} \cup DbIds
    /\ t \in Times
    /\ db' = db \cup {Msg(nextId, p, t)}
    /\ nextId' = nextId + 1
    /\ clock' = t
    /\ messages' = OnRealtimeInsert(messages, Msg(nextId, p, t))
    /\ UNCHANGED <<dbRefs, references, deleting, deleteEvents, isLoading,
                   llmRequest, excluded, call, canvas, stream,
                   collab, hookState>>

(***************************************************************************)
(* useConversation.deleteMessage.  The callback awaits the DELETE request  *)
(* before it touches local state, so it is two steps; every other handler  *)
(* may run in between.                                                     *)
(***************************************************************************)
DeleteStart(id) ==
    /\ deleting = NoCall
    /\ id \in Ids(messages)
    /\ deleting' = [fn |-> "deleteMessage", id |-> id, closure |-> messages]
    /\ UNCHANGED <<db, dbRefs, nextId, clock, messages, references,
                   deleteEvents, isLoading, llmRequest, excluded, call,
                   canvas, stream, collab, hookState>>

DeleteOk ==
    /\ deleting # NoCall
    /\ ServerDelete(deleting.id)
    /\ messages' = RemoveFromLocal(messages,
                                   collectDescendants(deleting.closure, deleting.id))
    /\ deleting' = NoCall
    /\ UNCHANGED <<nextId, clock, references, isLoading, llmRequest, excluded, call, canvas, stream,
                   collab, hookState>>

\* if (!response.ok) throw
DeleteFail ==
    /\ deleting # NoCall
    /\ deleting' = NoCall
    /\ UNCHANGED <<db, dbRefs, nextId, clock, messages, references,
                   deleteEvents, isLoading, llmRequest, excluded, call,
                   canvas, stream, collab, hookState>>

\* another session deletes a subtree
RemoteDelete(id) ==
    /\ id \in DbIds
    /\ ServerDelete(id)
    /\ UNCHANGED <<nextId, clock, messages, references, deleting, isLoading,
                   llmRequest, excluded, call, canvas, stream,
                   collab, hookState>>

\* (payload) => setMessages((prev) => prev.filter((m) => m.id !== deletedMessage.id))
RealtimeDelete(id) ==
    /\ id \in deleteEvents
    /\ deleteEvents' = deleteEvents \ {id}
    /\ messages' = SelectSeq(messages, LAMBDA m : m.id # id)
    /\ UNCHANGED <<db, dbRefs, nextId, clock, references, deleting, isLoading,
                   llmRequest, excluded, call, canvas, stream,
                   collab, hookState>>

(***************************************************************************)
(* useConversation.loadConversation (reload).                              *)
(***************************************************************************)
LoadConversation ==
    /\ \E s \in LoadedOrders : messages' = s
    /\ references' = {e \in dbRefs : e[1] \in DbIds}
    /\ UNCHANGED <<db, dbRefs, nextId, clock, deleting, deleteEvents, isLoading,
                   llmRequest, excluded, call, canvas, stream,
                   collab, hookState>>

(***************************************************************************)
(* page.tsx: handleSend.  It posts the user message and the placeholder    *)
(* assistant message, builds the context from the messages it was created  *)
(* with plus the new user message, and hands it to callLLM; the input bar  *)
(* is disabled until callLLM has finished.                                 *)
(***************************************************************************)
\* InputBar.parseBranchReferences: ids of roots, deduplicated
RootRefLists(msgs) ==
    LET roots == {msgs[i].id : i \in {j \in DOMAIN msgs : msgs[j].parent_id = NoParent}}
    IN {s \in UNION {[1..n -> roots] : n \in 0..MaxRefs} :
            \A i, j \in DOMAIN s : i # j => s[i] # s[j]}

\* addMessage: setMessages((prev) => prev.some(...) ? prev : [...prev, message])
OnAddMessage(prev, message) ==
    IF \E i \in DOMAIN prev : prev[i].id = message.id THEN prev
    ELSE Append(prev, message)

\* for (const refId of branchReferences) { ... if (root && !visited.has(root.id)) { expand } }
RECURSIVE AddReferencedOnSend(_, _, _, _)
AddReferencedOnSend(msgs, branchReferences, visited, out) ==
    IF branchReferences = <<>> THEN out
    ELSE LET root == ResolveRoot(msgs, messagesById(msgs, Head(branchReferences)))
             r == IF root # Undefined /\ root.id \notin visited
                  THEN ExpandTree(msgs, <<root.id>>, visited, out)
                  ELSE [visited |-> visited, out |-> out]
         IN AddReferencedOnSend(msgs, Tail(branchReferences), r.visited, r.out)

\* the contextMessages of handleSend, sorted, as handed to callLLM
SendContext(msgs, replyingTo, userMsg, branchReferences) ==
    LET ancestry == IF replyingTo # NoParent THEN getAncestry(msgs, replyingTo)
                    ELSE <<>>
        own == Append(ancestry, userMsg)
    IN SortByCreatedAt(AddReferencedOnSend(msgs, branchReferences, Ids(own), own))

\* callLLM({ messages: contextMessages.map((m) => ({ role, content })) }): the
\* payload carries no ids; the model keeps them to say which node each entry is
LlmPayload(contextMessages) == IdsOf(contextMessages)

HandleSend(replyingTo, branchReferences, t1, t2) ==
    LET userMsg == Msg(nextId, replyingTo, t1)
        assistantMsg == Msg(nextId + 1, nextId, t2)
    IN /\ isLoading = FALSE
       /\ nextId + 1 <= MaxNodes
       /\ replyingTo \in {NoParent} \cup (Ids(messages) \cap DbIds)
       /\ branchReferences \in RootRefLists(messages)
       /\ t1 \in Times
       /\ t2 \in {t1, t1 + 1}
       /\ db' = db \cup {userMsg, assistantMsg}
       /\ dbRefs' = IF \A i \in DOMAIN branchReferences : branchReferences[i] \in DbIds
                    THEN dbRefs \cup {<<nextId, branchReferences[i]>> :
                                          i \in DOMAIN branchReferences}
                    ELSE dbRefs
       /\ nextId' = nextId + 2
       /\ clock' = t2
       /\ messages' = OnAddMessage(OnAddMessage(messages, userMsg), assistantMsg)
       /\ llmRequest' = LlmPayload(SendContext(messages, replyingTo, userMsg,
                                               branchReferences))
       /\ isLoading' = TRUE
       /\ provisional' = [id |-> assistantMsg.id, content |-> ""]
       /\ streamingMessages' =
              (assistantMsg.id :> [content |-> "", isStreaming |-> TRUE])
                  @@ streamingMessages
       /\ UNCHANGED <<references, deleting, deleteEvents, excluded, call, canvas, collab,
                   hookState>>

\* next.delete(id) on the Map
MapDelete(map, id) == [k \in (DOMAIN map) \ {id} |-> map[k]]

\* callLLM has returned and updateMessage has stored the text: the streaming
\* entry is deleted; finally { setIsLoading(false) }
LlmDone ==
    /\ isLoading = TRUE
    /\ isLoading' = FALSE
    /\ llmRequest' = <<>>
    /\ streamingMessages' = MapDelete(streamingMessages, provisional.id)
    /\ provisional' = NoCall
    /\ UNCHANGED <<db, dbRefs, nextId, clock, messages, references, deleting,
                   deleteEvents, excluded, call, canvas, collab,
                   hookState>>

\* onChunk: (streamedText) => next.set(assistantMsg.id, { content: streamedText, isStreaming: true })
LlmChunk ==
    /\ isLoading = TRUE
    /\ streamingMessages' =
           (provisional.id :> [content |-> "streamed", isStreaming |-> TRUE])
               @@ streamingMessages
    /\ UNCHANGED <<db, dbRefs, nextId, clock, messages, references, deleting,
                   deleteEvents, isLoading, llmRequest, excluded, call, canvas,
                   provisional, collab, hookState>>

\* callLLM throws (response not ok, no body, read error): catch { setCircularWarning }
\* finally { setIsLoading(false) }
LlmFail ==
    /\ isLoading = TRUE
    /\ isLoading' = FALSE
    /\ llmRequest' = <<>>
    /\ provisional' = NoCall
    /\ UNCHANGED <<db, dbRefs, nextId, clock, messages, references, deleting,
                   deleteEvents, excluded, call, canvas, streamingMessages,
                   collab, hookState>>

\* callLLM has returned and updateMessage throws: the same catch and finally
UpdateMessageFail ==
    /\ isLoading = TRUE
    /\ isLoading' = FALSE
    /\ llmRequest' = <<>>
    /\ provisional' = NoCall
    /\ UNCHANGED <<db, dbRefs, nextId, clock, messages, references, deleting,
                   deleteEvents, excluded, call, canvas, streamingMessages,
                   collab, hookState>>

(***************************************************************************)
(* ContextLens: onToggleNode flips isIncluded of one node.                 *)
(***************************************************************************)
ToggleNode(nodeId) ==
    /\ nodeId \in Ids(messages)
    /\ excluded' = IF nodeId \in excluded THEN excluded \ {nodeId}
                   ELSE excluded \cup {nodeId}
    /\ UNCHANGED <<db, dbRefs, nextId, clock, messages, references, deleting,
                   deleteEvents, isLoading, llmRequest, call, canvas, stream,
                   collab, hookState>>

(***************************************************************************)
(* The conversation's life: inserts, sends, deletes, realtime events and   *)
(* reloads in any order.                                                   *)
(***************************************************************************)
Next ==
    \/ \E p \in 0..MaxNodes, t \in Times : RemoteInsert(p, t)
    \/ \E r \in 0..MaxNodes, refs \in RootRefLists(messages),
          t1 \in Times, t2 \in {clock, clock + 1, clock + 2} :
           HandleSend(r, refs, t1, t2)
    \/ LlmDone
    \/ \E id \in 1..MaxNodes : DeleteStart(id)
    \/ DeleteOk
    \/ DeleteFail
    \/ \E id \in 1..MaxNodes : RemoteDelete(id)
    \/ \E id \in 1..MaxNodes : RealtimeDelete(id)
    \/ LoadConversation

Spec == Init /\ [][Next]_vars

(***************************************************************************)
(* Sending with the Context Lens open: inserts, toggles and sends.         *)
(***************************************************************************)
NextSend ==
    \/ \E p \in 0..MaxNodes, t \in Times : RemoteInsert(p, t)
    \/ \E id \in 1..MaxNodes : ToggleNode(id)
    \/ \E r \in 0..MaxNodes, refs \in RootRefLists(messages),
          t1 \in Times, t2 \in {clock, clock + 1, clock + 2} :
           HandleSend(r, refs, t1, t2)
    \/ LlmDone

SpecSend == Init /\ [][NextSend]_vars

(***************************************************************************)
(* The pure functions, applied to the messages of the current state.  The  *)
(* arguments are ids that may or may not name a message.                   *)
(***************************************************************************)
RefLists == UNION {[1..n -> 1..MaxNodes] : n \in 0..MaxRefs}

CallGetContextMessages(nodeId, branchRefs) ==
    /\ call = NoCall
    /\ nodeId \in 1..MaxNodes
    /\ branchRefs \in RefLists
    /\ call' = [fn |-> "getContextMessages", nodeId |-> nodeId,
                branchRefs |-> branchRefs,
                result |-> getContextMessages(messages, nodeId, branchRefs)]
    /\ UNCHANGED <<db, dbRefs, nextId, clock, messages, references, deleting,
                   deleteEvents, isLoading, llmRequest, excluded, canvas,
                   stream, collab, hookState>>

CallWouldCreateCircle(fromId, toId) ==
    /\ call = NoCall
    /\ fromId \in 1..MaxNodes
    /\ toId \in 1..MaxNodes
    /\ call' = [fn |-> "wouldCreateCircle", fromId |-> fromId, toId |-> toId,
                result |-> wouldCreateCircle(messages, fromId, toId)]
    /\ UNCHANGED <<db, dbRefs, nextId, clock, messages, references, deleting,
                   deleteEvents, isLoading, llmRequest, excluded, canvas,
                   stream, collab, hookState>>

CallGenerateShortLabels ==
    /\ call = NoCall
    /\ call' = [fn |-> "generateShortLabels",
                result |-> generateShortLabels(messages)]
    /\ UNCHANGED <<db, dbRefs, nextId, clock, messages, references, deleting,
                   deleteEvents, isLoading, llmRequest, excluded, canvas,
                   stream, collab, hookState>>

\* the caller has used the result
Return ==
    /\ call # NoCall
    /\ call' = NoCall
    /\ UNCHANGED <<db, dbRefs, nextId, clock, messages, references, deleting,
                   deleteEvents, isLoading, llmRequest, excluded, canvas,
                   stream, collab, hookState>>

(***************************************************************************)
(* The context aggregator over every forest that inserts build.            *)
(***************************************************************************)
NextContext ==
    \/ call = NoCall /\ \E p \in 0..MaxNodes, t \in Times : RemoteInsert(p, t)
    \/ \E n \in 1..MaxNodes, refs \in RefLists : CallGetContextMessages(n, refs)
    \/ Return

SpecContext == Init /\ [][NextContext]_vars

(***************************************************************************)
(* The cycle guard over every local forest that inserts and deletes of     *)
(* other sessions build, orphans included.                                 *)
(***************************************************************************)
NextCircle ==
    \/ call = NoCall /\ \E p \in 0..MaxNodes, t \in Times : RemoteInsert(p, t)
    \/ call = NoCall /\ \E id \in 1..MaxNodes : RemoteDelete(id)
    \/ call = NoCall /\ \E id \in 1..MaxNodes : RealtimeDelete(id)
    \/ \E a, b \in 1..MaxNodes : CallWouldCreateCircle(a, b)
    \/ Return

SpecCircle == Init /\ [][NextCircle]_vars

(***************************************************************************)
(* The label generator over every local array that inserts, deletes and   *)
(* reloads build, orphans included.                                        *)
(***************************************************************************)
NextLabels ==
    \/ call = NoCall /\ \E p \in 0..MaxNodes, t \in Times : RemoteInsert(p, t)
    \/ call = NoCall /\ \E id \in 1..MaxNodes : RemoteDelete(id)
    \/ call = NoCall /\ \E id \in 1..MaxNodes : RealtimeDelete(id)
    \/ call = NoCall /\ LoadConversation
    \/ CallGenerateShortLabels
    \/ Return

SpecLabels == Init /\ [][NextLabels]_vars

(***************************************************************************)
(* dagre-layout: getLayoutedElements, direction "TB".  A node is a record  *)
(* [id, type]; an edge is a pair <<source, target>>.  dagre.layout is a    *)
(* library call: its outcome is a choice among the placements its rank     *)
(* layout can give.  A placement puts a node of depth r on rank r, ranks   *)
(* below one another ranksep apart, and the nodes of one rank in distinct  *)
(* columns that leave at least nodesep between any two of them; the        *)
(* leftmost column of a tree starts at marginx.                            *)
(***************************************************************************)
AGENT_NODE_WIDTH == 320
AGENT_NODE_HEIGHT == 200
USER_NODE_WIDTH == 280
USER_NODE_HEIGHT == 120
HORIZONTAL_SPACING == 100
nodesep == 50
ranksep == 80
marginx == 20
marginy == 20

getNodeDimensions(node) ==
    [width |-> IF node.type = "agent" THEN AGENT_NODE_WIDTH ELSE USER_NODE_WIDTH,
     height |-> IF node.type = "agent" THEN AGENT_NODE_HEIGHT ELSE USER_NODE_HEIGHT]

\* page.tsx: newNodes = messages.map(...), type from the role of each message
NewNodes(msgs, types) ==
    [i \in DOMAIN msgs |-> [id |-> msgs[i].id, type |-> types[msgs[i].id]]]

\* page.tsx: for (const msg of messages) if (msg.parent_id) newEdges.push(reply edge)
RECURSIVE NewReplyEdges(_)
NewReplyEdges(msgs) ==
    IF msgs = <<>> THEN <<>>
    ELSE (IF Head(msgs).parent_id # NoParent
          THEN <<(<<Head(msgs).parent_id, Head(msgs).id>>)>>
          ELSE <<>>) \o NewReplyEdges(Tail(msgs))

\* nodes.find((n) => n.id === nodeId)
FindNode(nodes, nodeId) ==
    IF \E i \in DOMAIN nodes : nodes[i].id = nodeId
    THEN nodes[CHOOSE i \in DOMAIN nodes :
                   /\ nodes[i].id = nodeId
                   /\ \A j \in DOMAIN nodes : nodes[j].id = nodeId => i <= j]
    ELSE [id |-> 0, type |-> "none"]

\* replyEdges.filter((e) => e.source === nodeId), the targets in order
ChildTargets(replyEdges, nodeId) ==
    LET own == SelectSeq(replyEdges, LAMBDA e : e[1] = nodeId)
    IN [i \in DOMAIN own |-> own[i][2]]

\* assignToTree(nodeId, treeId): the recursion as a stack, first child first
RECURSIVE AssignToTree(_, _, _, _, _)
AssignToTree(nodes, replyEdges, stack, assigned, treeNodes) ==
    IF stack = <<>> THEN [assigned |-> assigned, treeNodes |-> treeNodes]
    ELSE LET nodeId == Head(stack)
             node == FindNode(nodes, nodeId)
         IN IF nodeId \in assigned
            THEN AssignToTree(nodes, replyEdges, Tail(stack), assigned, treeNodes)
            ELSE AssignToTree(nodes, replyEdges,
                              ChildTargets(replyEdges, nodeId) \o Tail(stack),
                              assigned \cup {nodeId},
                              IF node.id # 0 THEN Append(treeNodes, node)
                              ELSE treeNodes)

\* for (const root of roots) assignToTree(root.id, root.id): the trees in Map order
RECURSIVE NodesByTree(_, _, _, _)
NodesByTree(nodes, replyEdges, roots, assigned) ==
    IF roots = <<>> THEN <<>>
    ELSE LET r == AssignToTree(nodes, replyEdges, <<Head(roots).id>>, assigned, <<>>)
         IN (IF r.treeNodes # <<>> THEN <<r.treeNodes>> ELSE <<>>)
                \o NodesByTree(nodes, replyEdges, Tail(roots), r.assigned)

\* the rank dagre gives a node of a tree: its depth below the tree's root
RECURSIVE DagreRank(_, _)
DagreRank(replyEdges, nodeId) ==
    IF \E i \in DOMAIN replyEdges : replyEdges[i][2] = nodeId
    THEN 1 + DagreRank(replyEdges,
                       replyEdges[CHOOSE i \in DOMAIN replyEdges :
                                      replyEdges[i][2] = nodeId][1])
    ELSE 0

\* the height of rank r of a tree: the tallest node on it
RankHeight(treeNodes, replyEdges, r) ==
    LET hs == {getNodeDimensions(treeNodes[i]).height :
                  i \in {j \in DOMAIN treeNodes :
                             DagreRank(replyEdges, treeNodes[j].id) = r}}
    IN IF hs = {} THEN 0 ELSE CHOOSE h \in hs : \A k \in hs : k <= h

\* the top of rank r
RECURSIVE RankTop(_, _, _)
RankTop(treeNodes, replyEdges, r) ==
    IF r = 0 THEN marginy
    ELSE RankTop(treeNodes, replyEdges, r - 1)
             + RankHeight(treeNodes, replyEdges, r - 1) + ranksep

\* the width of a column: the widest node and the separation after it
ColumnWidth == AGENT_NODE_WIDTH + nodesep

\* a choice of columns is one dagre can make: two nodes of a rank never share
\* one, and the leftmost column in use is column 0
DagrePlacement(treeNodes, replyEdges, column) ==
    /\ \E i \in DOMAIN treeNodes : column[treeNodes[i].id] = 0
    /\ \A i, j \in DOMAIN treeNodes :
           (/\ i # j
            /\ DagreRank(replyEdges, treeNodes[i].id)
                   = DagreRank(replyEdges, treeNodes[j].id))
               => column[treeNodes[i].id] # column[treeNodes[j].id]

\* dagreGraph.node(node.id): the centre of the node
DagreNode(treeNodes, replyEdges, column, node) ==
    LET r == DagreRank(replyEdges, node.id)
    IN [x |-> marginx + column[node.id] * ColumnWidth
                  + getNodeDimensions(node).width \div 2,
        y |-> RankTop(treeNodes, replyEdges, r)
                  + RankHeight(treeNodes, replyEdges, r) \div 2]

\* dagre.layout(dagreGraph): the centres of the nodes of one tree, in treeNodes order
DagreLayout(treeNodes, replyEdges, column) ==
    [i \in DOMAIN treeNodes |-> DagreNode(treeNodes, replyEdges, column, treeNodes[i])]

\* minX = Math.min(minX, nodeWithPosition.x - dims.width / 2) over the tree
TreeMinX(treeNodes, laid) ==
    LET xs == {laid[i].x - getNodeDimensions(treeNodes[i]).width \div 2 :
                   i \in DOMAIN treeNodes}
    IN CHOOSE x \in xs : \A y \in xs : x <= y

\* maxX = Math.max(maxX, nodeWithPosition.x + dims.width / 2) over the tree
TreeMaxX(treeNodes, laid) ==
    LET xs == {laid[i].x + getNodeDimensions(treeNodes[i]).width \div 2 :
                   i \in DOMAIN treeNodes}
    IN CHOOSE x \in xs : \A y \in xs : y <= x

\* variant: the offset forgets the cursor, every tree starts at x = 0
OffsetXNoCursor(currentX, minX) == 0 - minX

\* const offsetX = currentX - minX
OffsetX(currentX, minX) == currentX - minX

\* layoutedNodes.push({...node, position, width, height}) for the nodes of one tree
PlaceTree(treeNodes, laid, offsetX) ==
    [i \in DOMAIN treeNodes |->
        LET node == treeNodes[i]
            dims == getNodeDimensions(node)
        IN [id |-> node.id, type |-> node.type,
            x |-> laid[i].x - dims.width \div 2 + offsetX,
            y |-> laid[i].y - dims.height \div 2,
            width |-> dims.width, height |-> dims.height]]

\* for (const [treeId, treeNodes] of nodesByTree.entries()) { ...; currentX += ... }
RECURSIVE LayoutTrees(_, _, _, _)
LayoutTrees(trees, replyEdges, column, currentX) ==
    IF trees = <<>> THEN <<>>
    ELSE LET treeNodes == Head(trees)
             laid == DagreLayout(treeNodes, replyEdges, column)
             minX == TreeMinX(treeNodes, laid)
             maxX == TreeMaxX(treeNodes, laid)
             treeWidth == maxX - minX
         IN PlaceTree(treeNodes, laid, OffsetX(currentX, minX))
                \o LayoutTrees(Tail(trees), replyEdges, column,
                               currentX + treeWidth + HORIZONTAL_SPACING)

\* the roots and the trees of a call
LayoutRoots(nodes, replyEdges) ==
    SelectSeq(nodes, LAMBDA n : \A i \in DOMAIN replyEdges : replyEdges[i][2] # n.id)

getLayoutedElements(nodes, replyEdges, column) ==
    LayoutTrees(NodesByTree(nodes, replyEdges, LayoutRoots(nodes, replyEdges), {}),
                replyEdges, column, 0)

\* the messages-to-nodes effect lays the new nodes out; the role of every
\* message and the columns dagre picks are free
CallGetLayoutedElements(types, column) ==
    LET nodes == NewNodes(messages, types)
        replyEdges == NewReplyEdges(messages)
        trees == NodesByTree(nodes, replyEdges, LayoutRoots(nodes, replyEdges), {})
    IN /\ call = NoCall
       /\ \A k \in DOMAIN trees : DagrePlacement(trees[k], replyEdges, column)
       /\ call' = [fn |-> "getLayoutedElements", nodes |-> nodes,
                   result |-> LayoutTrees(trees, replyEdges, column, 0)]
       /\ UNCHANGED <<db, dbRefs, nextId, clock, messages, references, deleting,
                      deleteEvents, isLoading, llmRequest, excluded, canvas,
                      stream, collab, hookState>>

(***************************************************************************)
(* The layout over every forest that inserts build.                        *)
(***************************************************************************)
NextLayout ==
    \/ call = NoCall /\ \E p \in 0..MaxNodes : RemoteInsert(p, clock)
    \/ \E types \in [Ids(messages) -> {"user", "agent"}],
          column \in [Ids(messages) -> 0..(MaxColumns - 1)] :
           CallGetLayoutedElements(types, column)
    \/ Return

SpecLayout == Init /\ [][NextLayout]_vars

(***************************************************************************)
(* page.tsx: the effect that turns messages into nodes.  It lays all nodes *)
(* out when the number of messages has changed or no layout was made yet,  *)
(* and otherwise refreshes the data of the nodes it has.  The role of a    *)
(* message does not change, so a node keeps its type from run to run.      *)
(***************************************************************************)
\* everything but the canvas and what React keeps of the effect
besideCanvas == <<db, dbRefs, nextId, clock, messages, references, deleting,
                  deleteEvents, isLoading, llmRequest, excluded, call, stream,
                  collab, cursorRefs,
                  loadRefs,
                  historyRefs>>

MessagesToNodes(types, column) ==
    LET messageCountChanged == Len(messages) # prevMessageCount
        needsLayout == messageCountChanged \/ ~hasInitialLayout
        newNodes == NewNodes(messages, types)
        newEdges == NewReplyEdges(messages)
        trees == NodesByTree(newNodes, newEdges, LayoutRoots(newNodes, newEdges), {})
    IN /\ \A i \in DOMAIN flowNodes :
              flowNodes[i].id \in Ids(messages) => types[flowNodes[i].id] = flowNodes[i].type
       /\ \A k \in DOMAIN trees : DagrePlacement(trees[k], newEdges, column)
       /\ prevMessageCount' = Len(messages)
       /\ lastMessages' = messages
       /\ IF needsLayout
          THEN /\ flowNodes' = LayoutTrees(trees, newEdges, column, 0)
               /\ hasInitialLayout' = TRUE
          ELSE UNCHANGED <<flowNodes, hasInitialLayout>>
       /\ UNCHANGED besideCanvas

\* the effect has not yet run for the messages of this state
EffectDue == Len(messages) # prevMessageCount \/ ~hasInitialLayout

\* where the user drops a node: left of and above everything a layout gives
DragTo == [x |-> 0 - USER_NODE_WIDTH, y |-> 0 - USER_NODE_HEIGHT]

\* handleNodesChange: a position change of one node at the end of a drag
DragNode(nodeId) ==
    /\ \E i \in DOMAIN flowNodes : flowNodes[i].id = nodeId
    /\ flowNodes' = [i \in DOMAIN flowNodes |->
                        IF flowNodes[i].id = nodeId
                        THEN [flowNodes[i] EXCEPT !.x = DragTo.x, !.y = DragTo.y]
                        ELSE flowNodes[i]]
    /\ UNCHANGED <<db, dbRefs, nextId, clock, messages, references, deleting,
                   deleteEvents, isLoading, llmRequest, excluded, call,
                   prevMessageCount, hasInitialLayout, stream,
                   collab, hookState>>

(***************************************************************************)
(* The canvas: messages come and go, the effect runs after every change of *)
(* messages, the user drags nodes in between.                              *)
(***************************************************************************)
NextCanvas ==
    \/ ~EffectDue /\ \E p \in 0..MaxNodes : RemoteInsert(p, clock)
    \/ ~EffectDue /\ \E id \in 1..MaxNodes : RemoteDelete(id)
    \/ ~EffectDue /\ \E id \in 1..MaxNodes : RealtimeDelete(id)
    \/ ~EffectDue /\ \E id \in 1..MaxNodes : DragNode(id)
    \/ \E types \in [Ids(messages) -> {"user", "agent"}],
          column \in [Ids(messages) -> 0..(MaxColumns - 1)] :
           MessagesToNodes(types, column)

SpecCanvas == Init /\ [][NextCanvas]_vars

(***************************************************************************)
(* The canvas when React renders once for several changes of messages: the *)
(* handlers of the realtime events run one after the other, the effect     *)
(* runs when the render that follows finds another messages array.         *)
(***************************************************************************)
NextRender ==
    \/ \E p \in 0..MaxNodes : RemoteInsert(p, clock)
    \/ \E id \in 1..MaxNodes : RemoteDelete(id)
    \/ \E id \in 1..MaxNodes : RealtimeDelete(id)
    \/ /\ messages # lastMessages \/ ~hasInitialLayout
       /\ \E types \in [Ids(messages) -> {"user", "agent"}],
             column \in [Ids(messages) -> 0..(MaxColumns - 1)] :
              MessagesToNodes(types, column)

SpecRender == Init /\ [][NextRender]_vars

(***************************************************************************)
(* The label generator and the layout over every local forest that inserts *)
(* and deletes of other sessions build, orphans included.                  *)
(***************************************************************************)
NextOrphans ==
    \/ call = NoCall /\ \E p \in 0..MaxNodes : RemoteInsert(p, clock)
    \/ call = NoCall /\ \E id \in 1..MaxNodes : RemoteDelete(id)
    \/ call = NoCall /\ \E id \in 1..MaxNodes : RealtimeDelete(id)
    \/ CallGenerateShortLabels
    \/ \E types \in [Ids(messages) -> {"user", "agent"}],
          column \in [Ids(messages) -> 0..(MaxColumns - 1)] :
           CallGetLayoutedElements(types, column)
    \/ Return

SpecOrphans == Init /\ [][NextOrphans]_vars

(***************************************************************************)
(* Sending with a responder or a store that may fail.                      *)
(***************************************************************************)
NextStream ==
    \/ \E p \in 0..MaxNodes, t \in Times : RemoteInsert(p, t)
    \/ \E r \in 0..MaxNodes, refs \in RootRefLists(messages),
          t1 \in Times, t2 \in {clock, clock + 1, clock + 2} :
           HandleSend(r, refs, t1, t2)
    \/ LlmChunk
    \/ LlmDone
    \/ LlmFail
    \/ UpdateMessageFail

SpecStream == Init /\ [][NextStream]_vars

(***************************************************************************)
(* The planning canvas: builder page and useCanvasCollaboration.           *)
(* A block is [id, position, data], data is [title, onDelete]; onDelete    *)
(* names the callback stored in the block ("handleDeleteBlock", or         *)
(* "broadcast" for the closure that also calls broadcastNodeDelete, or     *)
(* "none" when the field is absent); onEdit is set and lost with it.       *)
(* An edge is [id, source, target].                                        *)
(***************************************************************************)
BlockIds == 1..MaxBlocks

\* what channel.send transmits of a block: JSON keeps no function
Json(node) == [node EXCEPT !.data.onDelete = "none"]

JsonAll(nds) == [i \in DOMAIN nds |-> Json(nds[i])]

\* data: { ...n.data, onEdit: handleEditBlock, onDelete: handleDeleteBlock }
WithHandlers(node) == [node EXCEPT !.data.onDelete = "handleDeleteBlock"]

WithHandlersAll(nds) == [i \in DOMAIN nds |-> WithHandlers(nds[i])]

\* the entries of incoming whose id is not in existingIds
NotIn(incoming, existingIds) ==
    LET isNew(n) == n.id \notin existingIds
    IN  SelectSeq(incoming, isNew)

\* case "node_add" without the test of the id
NodeAddNoCheck(nds, nodePayload) == Append(nds, WithHandlers(nodePayload))

\* case "node_add"
NodeAdd(nds, nodePayload) ==
    IF nodePayload.id \in Ids(nds) THEN nds
    ELSE Append(nds, WithHandlers(nodePayload))

\* { ...n, ...changes } that keeps the receiver's fields
ApplyChangesKeepLocal(n, changes) == n

\* { ...n, ...changes }
ApplyChanges(n, changes) ==
    [f \in DOMAIN n |-> IF f \in DOMAIN changes THEN changes[f] ELSE n[f]]

\* case "node_update"
NodeUpdate(nds, nodeId, changes) ==
    [i \in DOMAIN nds |->
        IF nds[i].id = nodeId THEN ApplyChanges(nds[i], changes) ELSE nds[i]]

\* nds.filter((n) => n.id !== nodeId)
RemoveNode(nds, nodeId) ==
    LET keep(n) == n.id # nodeId
    IN  SelectSeq(nds, keep)

\* an edge filter that looks at the source only
RemoveEdgesOfSource(eds, nodeId) ==
    LET keep(e) == e.source # nodeId
    IN  SelectSeq(eds, keep)

\* eds.filter((e) => e.source !== nodeId && e.target !== nodeId)
RemoveEdgesOf(eds, nodeId) ==
    LET keep(e) == e.source # nodeId /\ e.target # nodeId
    IN  SelectSeq(eds, keep)

\* case "edge_add"
EdgeAdd(eds, edgePayload) ==
    IF edgePayload.id \in Ids(eds) THEN eds ELSE Append(eds, edgePayload)

\* case "edge_delete"
EdgeDelete(eds, edgeId) ==
    LET keep(e) == e.id # edgeId
    IN  SelectSeq(eds, keep)

\* a merge that takes the incoming nodes and keeps the local ones they lack
MergeNodesOverwrite(currentNodes, incoming) ==
    WithHandlersAll(incoming) \o NotIn(currentNodes, Ids(incoming))

\* case "bulk_update": setNodes
MergeNodes(currentNodes, incoming) ==
    IF Len(currentNodes) = 0 THEN WithHandlersAll(incoming)
    ELSE currentNodes \o WithHandlersAll(NotIn(incoming, Ids(currentNodes)))

\* case "bulk_update": setEdges
MergeEdges(currentEdges, incoming) ==
    IF Len(currentEdges) = 0 THEN incoming
    ELSE currentEdges \o NotIn(incoming, Ids(currentEdges))

\* the nodes and edges a participant holds after handleRemoteUpdate(update)
handleRemoteUpdate(nds, eds, update) ==
    LET payload == update.payload
    IN  CASE update.type = "node_add" ->
                 [nodes |-> NodeAdd(nds, payload), edges |-> eds]
          [] update.type = "node_update" ->
                 [nodes |-> NodeUpdate(nds, payload.nodeId, payload.changes),
                  edges |-> eds]
          [] update.type = "node_delete" ->
                 [nodes |-> RemoveNode(nds, payload.nodeId),
                  edges |-> RemoveEdgesOf(eds, payload.nodeId)]
          [] update.type = "edge_add" ->
                 [nodes |-> nds, edges |-> EdgeAdd(eds, payload)]
          [] update.type = "edge_delete" ->
                 [nodes |-> nds, edges |-> EdgeDelete(eds, payload.edgeId)]
          [] update.type = "bulk_update" ->
                 [nodes |-> IF Len(payload.nodes) > 0
                            THEN MergeNodes(nds, payload.nodes) ELSE nds,
                  edges |-> IF Len(payload.edges) > 0
                            THEN MergeEdges(eds, payload.edges) ELSE eds]
          [] OTHER -> [nodes |-> nds, edges |-> eds]

\* addEdge(newEdge, eds) of the canvas library: a connection that exists is
\* not added again
addEdge(newEdge, eds) ==
    IF \E i \in DOMAIN eds : /\ eds[i].source = newEdge.source
                             /\ eds[i].target = newEdge.target
    THEN eds ELSE Append(eds, newEdge)

\* channel.send of a broadcast by p: config broadcast: { self: false }, and
\* only the participants that have subscribed receive it
Joined(q) == status[q] \in {"connected", "requested"}

Send(p, msg) ==
    inbox' = [q \in Participants |->
                 IF q # p /\ Joined(q)
                 THEN Append(inbox[q], msg) ELSE inbox[q]]

\* broadcastUpdate; time passes between two edits
broadcastUpdate(p, type, payload) ==
    /\ now < MaxTime + 1
    /\ Send(p, [event |-> "canvas_update", type |-> type, payload |-> payload,
                userId |-> p, timestamp |-> now])
    /\ now' = now + 1

SetNodes(p, nds) == canvasNodes' = [canvasNodes EXCEPT ![p] = nds]

SetEdges(p, eds) == canvasEdges' = [canvasEdges EXCEPT ![p] = eds]

\* the forest, the canvas of the flow page and the streaming state
flowPage == <<db, dbRefs, nextId, clock, messages, references, deleting,
              deleteEvents, isLoading, llmRequest, excluded, canvas, stream,
              hookState>>

\* channel.subscribe: status SUBSCRIBED, the sync timer is armed
Subscribed(p) ==
    /\ call = NoCall
    /\ status[p] = "connecting"
    /\ status' = [status EXCEPT ![p] = "connected"]
    /\ UNCHANGED <<flowPage, call, canvasNodes, canvasEdges, inbox, now>>

\* the timer of 500 ms: broadcast of sync_request
SyncRequest(p) ==
    /\ call = NoCall
    /\ status[p] = "connected"
    /\ status' = [status EXCEPT ![p] = "requested"]
    /\ Send(p, [event |-> "sync_request", requesterId |-> p, timestamp |-> now])
    /\ UNCHANGED <<flowPage, call, canvasNodes, canvasEdges, now>>

\* confirmAddBlock; generateId returns an id the participant does not hold
confirmAddBlock(p, id) ==
    /\ call = NoCall
    /\ status[p] # "connecting"
    /\ id \notin Ids(canvasNodes[p])
    /\ LET newNode == [id |-> id, position |-> 0,
                       data |-> [title |-> 0, onDelete |-> "broadcast"]]
       IN  /\ SetNodes(p, Append(canvasNodes[p], newNode))
           /\ broadcastUpdate(p, "node_add", Json(newNode))
    /\ UNCHANGED <<flowPage, call, canvasEdges, status>>

\* handleEditBlock then saveBlockEdit, the editor being opened on the block as
\* it is now
saveBlockEdit(p, id, editTitle) ==
    /\ call = NoCall
    /\ status[p] # "connecting"
    /\ \E i \in DOMAIN canvasNodes[p] :
          LET editingBlock == canvasNodes[p][i]
              updatedNode ==
                  [editingBlock EXCEPT
                      !.data = [title |-> editTitle, onDelete |-> "broadcast"]]
          IN  /\ editingBlock.id = id
              /\ editingBlock.data.onDelete # "none"
              /\ SetNodes(p, [j \in DOMAIN canvasNodes[p] |->
                                 IF canvasNodes[p][j].id = id THEN updatedNode
                                 ELSE canvasNodes[p][j]])
              /\ broadcastUpdate(p, "node_update",
                                 [nodeId |-> id,
                                  changes |-> [data |-> Json(updatedNode).data]])
    /\ UNCHANGED <<flowPage, call, canvasEdges, status>>

\* onNodesChange with a position change: the block is moved and
\* broadcastNodeUpdate(change.id, { position }) is called
onNodesChange(p, id, position) ==
    /\ call = NoCall
    /\ status[p] # "connecting"
    /\ id \in Ids(canvasNodes[p])
    /\ SetNodes(p, NodeUpdate(canvasNodes[p], id, [position |-> position]))
    /\ broadcastUpdate(p, "node_update",
                       [nodeId |-> id, changes |-> [position |-> position]])
    /\ UNCHANGED <<flowPage, call, canvasEdges, status>>

\* the delete button of a block: data.onDelete(data.id)
onDelete(p, id) ==
    /\ call = NoCall
    /\ status[p] # "connecting"
    /\ \E i \in DOMAIN canvasNodes[p] :
          /\ canvasNodes[p][i].id = id
          /\ canvasNodes[p][i].data.onDelete # "none"
          /\ IF canvasNodes[p][i].data.onDelete = "broadcast"
             THEN broadcastUpdate(p, "node_delete", [nodeId |-> id])
             ELSE UNCHANGED <<inbox, now, hookState>>
    \* handleDeleteBlock
    /\ SetNodes(p, RemoveNode(canvasNodes[p], id))
    /\ SetEdges(p, RemoveEdgesOf(canvasEdges[p], id))
    /\ call' = [fn |-> "handleDeleteBlock", p |-> p, nodeId |-> id,
                before |-> [nodes |-> canvasNodes[p], edges |-> canvasEdges[p]]]
    /\ UNCHANGED <<flowPage, status>>

\* onConnect: the id of the edge is `edge-${Date.now()}`
onConnect(p, source, target) ==
    /\ call = NoCall
    /\ status[p] # "connecting"
    /\ source \in Ids(canvasNodes[p])
    /\ target \in Ids(canvasNodes[p])
    /\ LET newEdge == [id |-> now, source |-> source, target |-> target]
       IN  /\ SetEdges(p, addEdge(newEdge, canvasEdges[p]))
           /\ broadcastUpdate(p, "edge_add", newEdge)
    /\ UNCHANGED <<flowPage, call, canvasNodes, status>>

\* onEdgesChange with a remove change (the edge is selected and the delete
\* key is pressed): the prop is the bare onEdgesChange of useEdgesState
onEdgesChange(p, edgeId) ==
    /\ call = NoCall
    /\ edgeId \in Ids(canvasEdges[p])
    /\ SetEdges(p, EdgeDelete(canvasEdges[p], edgeId))
    /\ UNCHANGED <<flowPage, call, canvasNodes, inbox, now, status>>

\* the channel delivers the broadcasts to a participant in the order it
\* relayed them; inbox[p] without the broadcast being handled
Rest(p) == Tail(inbox[p])

\* channel.on("broadcast", { event: "canvas_update" })
OnCanvasUpdate(p) ==
    LET payload == Head(inbox[p])
        update == [type |-> payload.type, payload |-> payload.payload,
                   userId |-> payload.userId, timestamp |-> payload.timestamp]
        after == handleRemoteUpdate(canvasNodes[p], canvasEdges[p], update)
    IN  /\ call = NoCall
        /\ inbox[p] # <<>>
        /\ payload.event = "canvas_update"
        /\ inbox' = [inbox EXCEPT ![p] = Rest(p)]
        /\ IF payload.userId # p
           THEN /\ SetNodes(p, after.nodes)
                /\ SetEdges(p, after.edges)
                /\ call' = [fn |-> "handleRemoteUpdate", p |-> p,
                            update |-> update,
                            before |-> [nodes |-> canvasNodes[p],
                                        edges |-> canvasEdges[p]]]
           ELSE UNCHANGED <<canvasNodes, canvasEdges, call, hookState>>
        /\ UNCHANGED <<flowPage, now, status>>

\* channel.on("broadcast", { event: "sync_request" })
OnSyncRequest(p) ==
    LET payload == Head(inbox[p])
        currentState == [nodes |-> canvasNodes[p], edges |-> canvasEdges[p]]
        rest == [inbox EXCEPT ![p] = Rest(p)]
    IN  /\ call = NoCall
        /\ inbox[p] # <<>>
        /\ payload.event = "sync_request"
        /\ IF /\ payload.requesterId # p
              /\ Len(currentState.nodes) > 0 \/ Len(currentState.edges) > 0
           THEN inbox' = [q \in Participants |->
                                IF q # p /\ Joined(q)
                                THEN Append(rest[q],
                                        [event |-> "sync_response",
                                         responderId |-> p,
                                         targetId |-> payload.requesterId,
                                         nodes |-> JsonAll(currentState.nodes),
                                         edges |-> currentState.edges,
                                         timestamp |-> now])
                                ELSE rest[q]]
           ELSE inbox' = rest
        /\ UNCHANGED <<flowPage, call, canvasNodes, canvasEdges, now, status>>

\* channel.on("broadcast", { event: "sync_response" })
OnSyncResponse(p) ==
    LET payload == Head(inbox[p])
        update == [type |-> "bulk_update",
                   payload |-> [nodes |-> payload.nodes, edges |-> payload.edges],
                   userId |-> payload.responderId,
                   timestamp |-> payload.timestamp]
        after == handleRemoteUpdate(canvasNodes[p], canvasEdges[p], update)
    IN  /\ call = NoCall
        /\ inbox[p] # <<>>
        /\ payload.event = "sync_response"
        /\ inbox' = [inbox EXCEPT ![p] = Rest(p)]
        /\ IF /\ payload.targetId = p
              /\ Len(payload.nodes) > 0 \/ Len(payload.edges) > 0
           THEN /\ SetNodes(p, after.nodes)
                /\ SetEdges(p, after.edges)
                /\ call' = [fn |-> "handleRemoteUpdate", p |-> p,
                            update |-> update,
                            before |-> [nodes |-> canvasNodes[p],
                                        edges |-> canvasEdges[p]]]
           ELSE UNCHANGED <<canvasNodes, canvasEdges, call, hookState>>
        /\ UNCHANGED <<flowPage, now, status>>

\* the handler has run and the page is rendered
Rendered ==
    /\ call # NoCall
    /\ call' = NoCall
    /\ UNCHANGED <<flowPage, collab>>

\* participants that are connected and edit: every steady-state mutation
NextCollab ==
    \/ \E p \in Participants : Subscribed(p)
    \/ \E p \in Participants, id \in BlockIds : confirmAddBlock(p, id)
    \/ \E p \in Participants, id \in BlockIds, t \in Titles :
           saveBlockEdit(p, id, t)
    \/ \E p \in Participants, id \in BlockIds, pos \in Positions :
           onNodesChange(p, id, pos)
    \/ \E p \in Participants, id \in BlockIds : onDelete(p, id)
    \/ \E p \in Participants, s, t \in BlockIds : onConnect(p, s, t)
    \/ \E p \in Participants, e \in 1..MaxTime : onEdgesChange(p, e)
    \/ \E p \in Participants : OnCanvasUpdate(p)
    \/ Rendered

SpecCollab == Init /\ [][NextCollab]_vars

\* participants that only add blocks and connect them
NextAdd ==
    \/ \E p \in Participants : Subscribed(p)
    \/ \E p \in Participants, id \in BlockIds : confirmAddBlock(p, id)
    \/ \E p \in Participants, s, t \in BlockIds : onConnect(p, s, t)
    \/ \E p \in Participants : OnCanvasUpdate(p)
    \/ Rendered

SpecAdd == Init /\ [][NextAdd]_vars

\* participants that add blocks and ask for the state of the others
NextSync ==
    \/ \E p \in Participants : Subscribed(p)
    \/ \E p \in Participants : SyncRequest(p)
    \/ \E p \in Participants, id \in BlockIds : confirmAddBlock(p, id)
    \/ \E p \in Participants : OnCanvasUpdate(p)
    \/ \E p \in Participants : OnSyncRequest(p)
    \/ \E p \in Participants : OnSyncResponse(p)
    \/ Rendered

SpecSync == Init /\ [][NextSync]_vars

\* generateId returns an id that no participant has generated: no block is
\* deleted below, so these are the ids no participant holds
Unused(id) == \A q \in Participants : id \notin Ids(canvasNodes[q])

\* participants that add and move blocks and ask for the state of the others,
\* the ids of generateId being unique among the participants
NextConverge ==
    \/ \E p \in Participants : Subscribed(p)
    \/ \E p \in Participants : SyncRequest(p)
    \/ \E p \in Participants, id \in BlockIds :
           Unused(id) /\ confirmAddBlock(p, id)
    \/ \E p \in Participants, id \in BlockIds, pos \in Positions :
           onNodesChange(p, id, pos)
    \/ \E p \in Participants : OnCanvasUpdate(p)
    \/ \E p \in Participants : OnSyncRequest(p)
    \/ \E p \in Participants : OnSyncResponse(p)
    \/ Rendered

SpecConverge == Init /\ [][NextConverge]_vars

\* participants that add, edit and move blocks
NextUpdate ==
    \/ \E p \in Participants : Subscribed(p)
    \/ \E p \in Participants, id \in BlockIds : confirmAddBlock(p, id)
    \/ \E p \in Participants, id \in BlockIds, t \in Titles :
           saveBlockEdit(p, id, t)
    \/ \E p \in Participants, id \in BlockIds, pos \in Positions :
           onNodesChange(p, id, pos)
    \/ \E p \in Participants : OnCanvasUpdate(p)
    \/ Rendered

SpecUpdate == Init /\ [][NextUpdate]_vars

\* participants that add, connect and delete blocks
NextDelete ==
    \/ \E p \in Participants : Subscribed(p)
    \/ \E p \in Participants, id \in BlockIds : confirmAddBlock(p, id)
    \/ \E p \in Participants, s, t \in BlockIds : onConnect(p, s, t)
    \/ \E p \in Participants, id \in BlockIds : onDelete(p, id)
    \/ \E p \in Participants : OnCanvasUpdate(p)
    \/ Rendered

SpecDelete == Init /\ [][NextDelete]_vars

(***************************************************************************)
(* The parent-chain walks, one loop iteration per step, over every parent  *)
(* map of MaxNodes messages, a malformed one with a cycle included.        *)
(***************************************************************************)
\* the messages 1..MaxNodes with the parent map parents
StoredMessages(parents) ==
    [i \in 1..MaxNodes |-> [id |-> i, parent_id |-> parents[i], created_at |-> i]]

\* messagesById.get(id), 0 standing for undefined
Get(msgs, id) == IF id \in Ids(msgs) THEN id ELSE 0

\* getAncestry: let current = messagesById.get(id), before the while loop
WalkAncestryStart(parents, nodeId) ==
    /\ call = NoCall
    /\ call' = [fn |-> "walkAncestry", msgs |-> StoredMessages(parents),
                current |-> Get(StoredMessages(parents), nodeId),
                visited |-> {}, chain |-> <<>>, done |-> FALSE]
    /\ UNCHANGED <<flowPage, collab>>

\* getAncestry: one test of the while condition and one run of its body
WalkAncestryStep ==
    /\ call.fn = "walkAncestry"
    /\ ~call.done
    /\ IF call.current # 0 /\ call.current \notin call.visited
       THEN LET parent_id == messagesById(call.msgs, call.current).parent_id
            IN  call' = [call EXCEPT
                            !.visited = @ \cup {call.current},
                            !.chain = Append(@, call.current),
                            !.current = IF parent_id # NoParent
                                        THEN Get(call.msgs, parent_id) ELSE 0]
       ELSE call' = [call EXCEPT !.chain = Reverse(@), !.done = TRUE]
    /\ UNCHANGED <<flowPage, collab>>

\* getContextMessages: let root = messagesById.get(refId), before the while loop
ResolveRootStart(parents, refId) ==
    /\ call = NoCall
    /\ call' = [fn |-> "walkRoot", msgs |-> StoredMessages(parents),
                current |-> Get(StoredMessages(parents), refId),
                visited |-> {}, chain |-> <<>>, done |-> FALSE]
    /\ UNCHANGED <<flowPage, collab>>

\* getContextMessages: while (root?.parent_id) root = messagesById.get(root.parent_id)
ResolveRootStep ==
    /\ call.fn = "walkRoot"
    /\ ~call.done
    /\ IF /\ call.current # 0
          /\ messagesById(call.msgs, call.current).parent_id # NoParent
       THEN call' = [call EXCEPT
                        !.current =
                            Get(call.msgs,
                                messagesById(call.msgs, call.current).parent_id)]
       ELSE call' = [call EXCEPT !.done = TRUE]
    /\ UNCHANGED <<flowPage, collab>>

\* the walk has returned
WalkReturn ==
    /\ call.fn \in {"walkAncestry", "walkRoot"}
    /\ call.done
    /\ call' = NoCall
    /\ UNCHANGED <<flowPage, collab>>

NextWalk ==
    \/ \E parents \in [1..MaxNodes -> 0..MaxNodes], nodeId \in 1..MaxNodes :
           WalkAncestryStart(parents, nodeId)
    \/ \E parents \in [1..MaxNodes -> 0..MaxNodes], refId \in 1..MaxNodes :
           ResolveRootStart(parents, refId)
    \/ WalkAncestryStep
    \/ ResolveRootStep
    \/ WalkReturn

\* a loop that has been entered keeps running
SpecWalk ==
    Init /\ [][NextWalk]_vars /\ WF_vars(WalkAncestryStep)
         /\ WF_vars(ResolveRootStep)

(***************************************************************************)
(* The cursor of useCanvasCollaboration: updateCursor with its throttle    *)
(* and the interval that flushes the pending sample.                       *)
(***************************************************************************)
\* the body of updateCursor(cursor), the channel being there
UpdateCursorBody(p, cursor, pending) ==
    IF cursorThrottled[p]
    THEN /\ pendingCursorRef' = [pending EXCEPT ![p] = cursor]
         /\ UNCHANGED <<cursorThrottled, presenceCursor>>
    ELSE /\ cursorThrottled' = [cursorThrottled EXCEPT ![p] = TRUE]
         /\ pendingCursorRef' = [pending EXCEPT ![p] = NullCursor]
         /\ presenceCursor' = [presenceCursor EXCEPT ![p] = cursor]

\* every variable but those of the cursor
besideCursor == <<db, dbRefs, nextId, clock, messages, references, deleting,
                  deleteEvents, isLoading, llmRequest, excluded, call, canvas,
                  stream, collab,
                  effectRefs,
                  loadRefs,
                  historyRefs>>

\* handleMouseMove (a position) and handleMouseLeave (null) call updateCursor
updateCursor(p, cursor) ==
    /\ lastSample' = [lastSample EXCEPT ![p] = cursor]
    /\ UpdateCursorBody(p, cursor, pendingCursorRef)
    /\ UNCHANGED besideCursor

\* the interval of cursorThrottleMs: a pending sample is taken and passed to
\* updateCursor; null is no pending sample
FlushTick(p) ==
    /\ IF pendingCursorRef[p] # NullCursor
       THEN UpdateCursorBody(p, pendingCursorRef[p],
                             [pendingCursorRef EXCEPT ![p] = NullCursor])
       ELSE UNCHANGED <<cursorThrottled, pendingCursorRef, presenceCursor>>
    /\ UNCHANGED <<besideCursor, lastSample>>

\* cursorThrottleMs have passed since lastCursorUpdateRef.current
ThrottleElapsed(p) ==
    /\ cursorThrottled[p]
    /\ cursorThrottled' = [cursorThrottled EXCEPT ![p] = FALSE]
    /\ UNCHANGED <<besideCursor, pendingCursorRef, presenceCursor, lastSample>>

NextCursor ==
    \/ \E p \in Participants, cursor \in CursorPositions \cup {NullCursor} :
           updateCursor(p, cursor)
    \/ \E p \in Participants : FlushTick(p)
    \/ \E p \in Participants : ThrottleElapsed(p)

\* time passes and the interval keeps ticking
SpecCursor ==
    Init /\ [][NextCursor]_vars
         /\ \A p \in Participants :
                WF_vars(FlushTick(p)) /\ WF_vars(ThrottleElapsed(p))

(***************************************************************************)
(* generateShortLabels on arrays of many trees.  A message arrives as in   *)
(* RemoteInsert, as a new root or as a reply to the latest message, with a *)
(* created_at later than every earlier one.                                *)
(***************************************************************************)
RootsOf(msgs) == SelectSeq(msgs, LAMBDA m : m.parent_id = NoParent)

InsertIntoTrees(p) ==
    /\ call = NoCall
    /\ \/ p = NoParent /\ Len(RootsOf(messages)) < MaxTrees
       \/ /\ p = nextId - 1
          /\ p \in Ids(messages)
          /\ Len(messages) - Len(RootsOf(messages)) < MaxReplies
    /\ db' = db \cup {Msg(nextId, p, clock + 1)}
    /\ nextId' = nextId + 1
    /\ clock' = clock + 1
    /\ messages' = OnRealtimeInsert(messages, Msg(nextId, p, clock + 1))
    /\ UNCHANGED <<dbRefs, references, deleting, deleteEvents, isLoading,
                   llmRequest, excluded, call, canvas, stream,
                   collab, hookState>>

NextTrees ==
    \/ \E p \in 0..(MaxTrees + MaxReplies) : InsertIntoTrees(p)
    \/ CallGenerateShortLabels
    \/ Return

SpecTrees == Init /\ [][NextTrees]_vars

(***************************************************************************)
(* generateShortLabels on trees deep and wide enough for the order of the  *)
(* walk to show: a message arrives as in RemoteInsert, as a root or as a   *)
(* reply to any message of the array.                                      *)
(***************************************************************************)
InsertIntoTree(p, t) ==
    /\ call = NoCall
    /\ Len(messages) < MaxTreeNodes
    /\ p \in {NoParent} \cup Ids(messages)
    /\ t \in Times
    /\ db' = db \cup {Msg(nextId, p, t)}
    /\ nextId' = nextId + 1
    /\ clock' = t
    /\ messages' = OnRealtimeInsert(messages, Msg(nextId, p, t))
    /\ UNCHANGED <<dbRefs, references, deleting, deleteEvents, isLoading,
                   llmRequest, excluded, call, canvas, stream,
                   collab, hookState>>

NextBreadth ==
    \/ \E p \in 0..MaxTreeNodes, t \in Times : InsertIntoTree(p, t)
    \/ CallGenerateShortLabels
    \/ Return

SpecBreadth == Init /\ [][NextBreadth]_vars

(***************************************************************************)
(* useConversation.ts: loadConversation and the two effects that run when  *)
(* conversationId changes.  Conversation c holds the messages 2c - 1 and   *)
(* 2c, a reference from the second to the first and a saved position of    *)
(* the first.                                                              *)
(***************************************************************************)
Conversations == 1..MaxConversations

\* data.messages of GET /api/conversations/c
ServerMessages(c) ==
    <<[id |-> 2 * c - 1, parent_id |-> NoParent, created_at |-> 1, conversation_id |-> c],
      [id |-> 2 * c, parent_id |-> 2 * c - 1, created_at |-> 2, conversation_id |-> c]>>

\* data.references of GET /api/conversations/c
ServerReferences(c) == {<<2 * c, 2 * c - 1>>}

\* the answer of GET /api/node-positions?conversation_id=c
ServerPositions(c) == (2 * c - 1) :> 1

\* the conversation a message id belongs to
ConversationOf(id) == (id + 1) \div 2

besideLoad == <<db, dbRefs, nextId, clock, deleting, deleteEvents, isLoading,
                llmRequest, excluded, call, canvas, stream, collab, cursorRefs,
                effectRefs,
                historyRefs>>

\* the page selects another conversation (or none): the clearing effect runs,
\* then the subscription effect calls loadConversation, which runs up to its
\* first await
selectConversation(c) ==
    /\ c # conversationId
    /\ conversationId' = c
    /\ conversation' = 0
    /\ messages' = <<>>
    /\ references' = {}
    /\ nodePositions' = <<>>
    /\ IF c # 0
       THEN /\ conversationLoading' = TRUE
            /\ loadError' = FALSE
            /\ loads' = loads \cup {[conv |-> c, stage |-> "data"]}
       ELSE /\ loadError' = FALSE
            /\ UNCHANGED <<conversationLoading, loads>>
    /\ UNCHANGED besideLoad

\* loadConversation resumes after fetch(`/api/conversations/${conversationId}`)
DataResponse(l, ok) ==
    /\ l \in loads
    /\ l.stage = "data"
    /\ IF ok
       THEN /\ conversation' = l.conv
            /\ messages' = ServerMessages(l.conv)
            /\ references' = ServerReferences(l.conv)
            /\ loads' = (loads \ {l}) \cup {[conv |-> l.conv, stage |-> "positions"]}
            /\ UNCHANGED <<conversationLoading, loadError>>
       ELSE /\ loadError' = TRUE
            /\ conversationLoading' = FALSE
            /\ loads' = loads \ {l}
            /\ UNCHANGED <<conversation, messages, references>>
    /\ UNCHANGED <<conversationId, nodePositions, besideLoad>>

\* loadConversation resumes after fetch(`/api/node-positions?...`)
PositionsResponse(l, ok) ==
    /\ l \in loads
    /\ l.stage = "positions"
    /\ nodePositions' = IF ok THEN ServerPositions(l.conv) ELSE nodePositions
    /\ conversationLoading' = FALSE
    /\ loads' = loads \ {l}
    /\ UNCHANGED <<conversationId, conversation, messages, references,
                   loadError, besideLoad>>

NextLoad ==
    \/ \E c \in 0..MaxConversations : selectConversation(c)
    \/ \E l \in loads, ok \in BOOLEAN : DataResponse(l, ok)
    \/ \E l \in loads, ok \in BOOLEAN : PositionsResponse(l, ok)

SpecLoad == Init /\ [][NextLoad]_vars

(***************************************************************************)
(* useCanvasCollaboration.ts: the cleanup of the connection effect and the *)
(* timer of the sync request.  The cleanup unsubscribes and removes the    *)
(* channel; it does not clear the timer the SUBSCRIBED callback has set.   *)
(* status "cleaned" is a removed channel whose timer has yet to fire,      *)
(* "closed" a removed channel with no timer left.  What channel.send does  *)
(* on a removed channel is the library's affair: the request reaches the   *)
(* others or it does not.                                                  *)
(***************************************************************************)
Cleanup(p) ==
    /\ call = NoCall
    /\ status[p] \in {"connecting", "connected", "requested"}
    /\ status' = [status EXCEPT
                     ![p] = IF status[p] = "connected" THEN "cleaned" ELSE "closed"]
    /\ inbox' = [inbox EXCEPT ![p] = <<>>]
    /\ UNCHANGED <<flowPage, call, canvasNodes, canvasEdges, now>>

\* the timer of 500 ms fires after the cleanup: channel.send on the channel
\* the callback has closed over
StaleSyncRequest(p, delivered) ==
    /\ call = NoCall
    /\ status[p] = "cleaned"
    /\ status' = [status EXCEPT ![p] = "closed"]
    /\ IF delivered
       THEN Send(p, [event |-> "sync_request", requesterId |-> p, timestamp |-> now])
       ELSE UNCHANGED inbox
    /\ UNCHANGED <<flowPage, call, canvasNodes, canvasEdges, now>>

NextTimer ==
    \/ \E p \in Participants : Subscribed(p)
    \/ \E p \in Participants : SyncRequest(p)
    \/ \E p \in Participants : Cleanup(p)
    \/ \E p \in Participants, delivered \in BOOLEAN : StaleSyncRequest(p, delivered)
    \/ \E p \in Participants, id \in BlockIds : Joined(p) /\ confirmAddBlock(p, id)
    \/ \E p \in Participants : OnCanvasUpdate(p)
    \/ \E p \in Participants : OnSyncRequest(p)
    \/ \E p \in Participants : OnSyncResponse(p)
    \/ Rendered

SpecTimer == Init /\ [][NextTimer]_vars

(***************************************************************************)
(* page.tsx: saveToHistory, undo and redo.  saveToHistory cuts the history *)
(* at historyIndexRef.current, which an effect sets to historyIndex after  *)
(* the render that follows a change of historyIndex, and counts            *)
(* historyIndex on from its own previous value.                            *)
(***************************************************************************)
HistoryLimit == 50
LastHistoryIndex == 49

besideHistory == <<db, dbRefs, nextId, clock, messages, references, deleting,
                   deleteEvents, isLoading, llmRequest, excluded, call,
                   prevMessageCount, hasInitialLayout, stream, collab,
                   cursorRefs, effectRefs, loadRefs>>

\* nodesRef.current.map((n) => ({ id, position, width, height }))
HistoryState(nds) ==
    [i \in DOMAIN nds |-> [id |-> nds[i].id, x |-> nds[i].x, y |-> nds[i].y,
                           width |-> nds[i].width, height |-> nds[i].height]]

\* currentNodes.map((node) => saved ? { ...node, position, width, height } : node)
RestoreNodes(currentNodes, saved) ==
    [i \in DOMAIN currentNodes |->
        IF \E j \in DOMAIN saved : saved[j].id = currentNodes[i].id
        THEN LET s == saved[CHOOSE j \in DOMAIN saved :
                                /\ saved[j].id = currentNodes[i].id
                                /\ \A k \in DOMAIN saved :
                                       saved[k].id = currentNodes[i].id => j <= k]
             IN [currentNodes[i] EXCEPT !.x = s.x, !.y = s.y,
                                        !.width = s.width, !.height = s.height]
        ELSE currentNodes[i]]

\* prev.slice(0, end)
Slice(prev, end) == SubSeq(prev, 1, IF end < Len(prev) THEN end ELSE Len(prev))

saveToHistory ==
    /\ IF isUndoRedoRef
       THEN /\ isUndoRedoRef' = FALSE
            /\ UNCHANGED <<history, historyIndex>>
       ELSE /\ LET newHistory == Append(Slice(history, historyIndexRef + 1),
                                        HistoryState(flowNodes))
               IN history' = IF Len(newHistory) > HistoryLimit
                             THEN Tail(newHistory) ELSE newHistory
            /\ historyIndex' = IF historyIndex + 1 < LastHistoryIndex
                               THEN historyIndex + 1 ELSE LastHistoryIndex
            /\ UNCHANGED isUndoRedoRef
    /\ UNCHANGED <<historyIndexRef, flowNodes, besideHistory>>

undo ==
    /\ historyIndex > 0
    /\ isUndoRedoRef' = TRUE
    /\ IF historyIndex \in DOMAIN history
       THEN /\ flowNodes' = RestoreNodes(flowNodes, history[historyIndex])
            /\ historyIndex' = historyIndex - 1
       ELSE UNCHANGED <<flowNodes, historyIndex>>
    /\ UNCHANGED <<history, historyIndexRef, besideHistory>>

redo ==
    /\ historyIndex < Len(history) - 1
    /\ isUndoRedoRef' = TRUE
    /\ flowNodes' = RestoreNodes(flowNodes, history[historyIndex + 2])
    /\ historyIndex' = historyIndex + 1
    /\ UNCHANGED <<history, historyIndexRef, besideHistory>>

\* useEffect(() => { historyIndexRef.current = historyIndex }, [historyIndex])
SyncHistoryIndexRef ==
    /\ historyIndexRef # historyIndex
    /\ historyIndexRef' = historyIndex
    /\ UNCHANGED <<history, historyIndex, isUndoRedoRef, flowNodes, besideHistory>>

NextHistory ==
    \/ saveToHistory
    \/ undo
    \/ redo
    \/ SyncHistoryIndexRef

SpecHistory == Init /\ [][NextHistory]_vars

(***************************************************************************)
(* Notions the claims are stated with.                                     *)
(***************************************************************************)
\* every parent_id names a message of the array
WellFormed(msgs) ==
    \A i \in DOMAIN msgs :
        msgs[i].parent_id # NoParent => msgs[i].parent_id \in Ids(msgs)

\* the ids on the path of parent links from id up to the top of its chain
RECURSIVE ChainIds(_, _)
ChainIds(msgs, id) ==
    IF id \notin Ids(msgs) THEN {}
    ELSE {id} \cup (IF messagesById(msgs, id).parent_id # NoParent
                    THEN ChainIds(msgs, messagesById(msgs, id).parent_id)
                    ELSE {})

\* the id at the top of the chain of parent links from id: the root of its tree
RECURSIVE TopOf(_, _)
TopOf(msgs, id) ==
    IF messagesById(msgs, id).parent_id \in Ids(msgs)
    THEN TopOf(msgs, messagesById(msgs, id).parent_id)
    ELSE id

\* the ids of n and of the nodes whose ancestor chain includes n
SubtreeIds(msgs, n) == {m \in Ids(msgs) : n \in ChainIds(msgs, m)}

\* the ids of the tree that contains id
TreeIds(msgs, id) ==
    {m \in Ids(msgs) : \E top \in ChainIds(msgs, id) :
                          /\ top \in ChainIds(msgs, m)
                          /\ messagesById(msgs, top).parent_id \notin Ids(msgs)}

(***************************************************************************)
(* C1.  No node the user has excluded in the Context Lens is in the        *)
(* message sequence handed to callLLM: on every send, the payload holds    *)
(* no id whose inclusion toggle is off.                                    *)
(***************************************************************************)
C1_ExcludedNeverSent ==
    [][(isLoading = FALSE /\ isLoading' = TRUE) =>
           \A i \in DOMAIN llmRequest' : llmRequest'[i] \notin excluded]_vars

(***************************************************************************)
(* C2.  When deleteMessage(n) completes on a well-formed local forest, the *)
(* ids it removes from messages are n and exactly the nodes whose ancestor *)
(* chain includes n.                                                       *)
(***************************************************************************)
C2_DeleteRemovesExactlySubtree ==
    [][(DeleteOk /\ WellFormed(messages)) =>
           Ids(messages') = Ids(messages) \ SubtreeIds(messages, deleting.id)]_vars

(***************************************************************************)
(* C3.  After deleteMessage has completed, no local reference edge has a   *)
(* removed node as its source or target.                                   *)
(***************************************************************************)
C3_NoReferenceToRemoved ==
    [][DeleteOk =>
           \A e \in references' :
               /\ e[1] \notin Ids(messages) \ Ids(messages')
               /\ e[2] \notin Ids(messages) \ Ids(messages')]_vars

\* no id occurs at two places of a list of messages
NoDup(msgs) == \A i, j \in DOMAIN msgs : i # j => msgs[i].id # msgs[j].id

\* no two messages carry the same created_at
DistinctCreatedAt(msgs) ==
    \A i, j \in DOMAIN msgs : i # j => msgs[i].created_at # msgs[j].created_at

\* the arrays that hold the same messages as msgs in some order
Orderings(msgs) ==
    {[i \in DOMAIN msgs |-> msgs[f[i]]] :
        f \in {g \in [DOMAIN msgs -> DOMAIN msgs] :
                  \A i, j \in DOMAIN msgs : i # j => g[i] # g[j]}}

(***************************************************************************)
(* C4.  For every target n and every referenced id r that names a message, *)
(* the context built for n holds every message of the tree that contains   *)
(* r, also when r lies in the tree of n.                                   *)
(***************************************************************************)
C4_ReferencedTreeIncluded ==
    call.fn = "getContextMessages" =>
        \A i \in DOMAIN call.branchRefs :
            call.branchRefs[i] \in Ids(messages) =>
                TreeIds(messages, call.branchRefs[i]) \subseteq Ids(call.result)

(***************************************************************************)
(* C5.  For every target and every list of referenced ids (ids of the      *)
(* target's own tree, repeated ids and ids of ancestors included), no id   *)
(* occurs twice in the built context.                                      *)
(***************************************************************************)
C5_NoIdTwice ==
    call.fn = "getContextMessages" => NoDup(call.result)

\* a context built with the same ancestor of the target referenced twice
C5_Witness ==
    /\ call.fn = "getContextMessages"
    /\ Len(call.branchRefs) = 2
    /\ call.branchRefs[1] = call.branchRefs[2]
    /\ call.branchRefs[1] # call.nodeId
    /\ call.branchRefs[1] \in ChainIds(messages, call.nodeId)
    /\ Len(call.result) >= 2

(***************************************************************************)
(* C6.  For every node n, the context built for n with no reference        *)
(* begins with the root of n's tree, ends with n, and is in non-decreasing *)
(* created_at order.                                                       *)
(***************************************************************************)
C6_AncestryContextRootToNode ==
    (/\ call.fn = "getContextMessages"
     /\ call.branchRefs = <<>>
     /\ call.nodeId \in Ids(messages)) =>
        LET r == call.result
        IN /\ Len(r) >= 1
           /\ r[1].parent_id = NoParent
           /\ r[1].id \in ChainIds(messages, call.nodeId)
           /\ r[Len(r)].id = call.nodeId
           /\ \A i, j \in DOMAIN r : i < j => r[i].created_at <= r[j].created_at

\* the context of a grandchild whose parent carries the same created_at
C6_Witness ==
    /\ call.fn = "getContextMessages"
    /\ call.branchRefs = <<>>
    /\ Len(call.result) = 3
    /\ call.result[3].id = call.nodeId
    /\ call.result[2].created_at = call.result[3].created_at

(***************************************************************************)
(* C7.  wouldCreateCircle(a, b) is true if and only if b lies on the path  *)
(* of parent links from a up to the top of its chain: true when b is the   *)
(* parent of a or a higher ancestor, false when b is a descendant of a or  *)
(* a node of another tree.                                                 *)
(***************************************************************************)
C7_CircleIffOnParentPath ==
    call.fn = "wouldCreateCircle" =>
        LET a == call.fromId
            b == call.toId
        IN /\ call.result <=> b \in ChainIds(messages, a)
           /\ (/\ a \in Ids(messages)
               /\ b \in Ids(messages)
               /\ messagesById(messages, a).parent_id = b) => call.result
           /\ (a # b /\ a \in ChainIds(messages, b)) => ~call.result
           /\ (/\ a \in Ids(messages)
               /\ b \in Ids(messages)
               /\ b \notin TreeIds(messages, a)) => ~call.result

\* a call whose toId is the grandparent of fromId has answered true
C7_Witness ==
    /\ call.fn = "wouldCreateCircle"
    /\ call.fromId \in Ids(messages)
    /\ messagesById(messages, call.fromId).parent_id \in Ids(messages)
    /\ messagesById(messages,
                    messagesById(messages, call.fromId).parent_id).parent_id
           = call.toId
    /\ call.result = TRUE

(***************************************************************************)
(* C8, as stated.  wouldCreateCircle(a, a) is false for every node a of a  *)
(* well-formed forest.                                                     *)
(***************************************************************************)
C8_SelfIsNotCircle ==
    (/\ call.fn = "wouldCreateCircle"
     /\ call.fromId = call.toId
     /\ call.fromId \in Ids(messages)
     /\ WellFormed(messages)) => call.result = FALSE

(***************************************************************************)
(* C8, amended.  wouldCreateCircle(a, a) is true for every node a of the   *)
(* forest: the chain that is searched starts with a itself.                *)
(***************************************************************************)
C8_SelfIsOnOwnPath ==
    (/\ call.fn = "wouldCreateCircle"
     /\ call.fromId = call.toId
     /\ call.fromId \in Ids(messages)) => call.result = TRUE

\* a call with fromId = toId, a non-root node of a well-formed forest
C8_Witness ==
    /\ call.fn = "wouldCreateCircle"
    /\ call.fromId = call.toId
    /\ call.fromId \in Ids(messages)
    /\ WellFormed(messages)
    /\ messagesById(messages, call.fromId).parent_id # NoParent
    /\ call.result = TRUE

(***************************************************************************)
(* C9.  generateShortLabels gives every message of the array a short       *)
(* label, and no two messages of the same tree get the same short label.   *)
(***************************************************************************)
C9_EveryNodeLabelledUniqueInTree ==
    call.fn = "generateShortLabels" =>
        LET labels == call.result.labels
        IN /\ \A m \in Ids(messages) : m \in DOMAIN labels
           /\ \A m, k \in Ids(messages) \cap DOMAIN labels :
                  (m # k /\ k \in TreeIds(messages, m)) => labels[m] # labels[k]

(***************************************************************************)
(* C10.  For messages with pairwise distinct created_at, every ordering of *)
(* the array gives the same short-label, tree-letter and tree-index maps.  *)
(***************************************************************************)
C10_LabelsStableUnderReordering ==
    (call.fn = "generateShortLabels" /\ DistinctCreatedAt(messages)) =>
        \A o \in Orderings(messages) : generateShortLabels(o) = call.result

\* two placed nodes have a point in common
Overlap(a, b) ==
    /\ a.x < b.x + b.width
    /\ b.x < a.x + a.width
    /\ a.y < b.y + b.height
    /\ b.y < a.y + a.height

(***************************************************************************)
(* C11.  getLayoutedElements never gives two nodes overlapping bounding    *)
(* boxes, and the x-extents of the nodes of two different trees never      *)
(* intersect: every node of one of the two trees ends left of where every  *)
(* node of the other begins.                                               *)
(***************************************************************************)
C11_NoOverlap ==
    call.fn = "getLayoutedElements" =>
        LET r == call.result
            Right(t) == {r[k].x + r[k].width :
                            k \in {l \in DOMAIN r : TopOf(messages, r[l].id) = t}}
            Left(t) == {r[k].x : k \in {l \in DOMAIN r : TopOf(messages, r[l].id) = t}}
        IN /\ \A i, j \in DOMAIN r : i # j => ~Overlap(r[i], r[j])
           /\ \A s, t \in {TopOf(messages, r[i].id) : i \in DOMAIN r} :
                  s # t => \/ \A a \in Right(s), b \in Left(t) : a < b
                           \/ \A a \in Right(t), b \in Left(s) : a < b

\* a layout of two trees, the first of them with two nodes, has been computed
C11_Witness ==
    /\ call.fn = "getLayoutedElements"
    /\ Len(call.result) = 3
    /\ call.result[2].id \in TreeIds(messages, call.result[1].id)
    /\ call.result[3].id \notin TreeIds(messages, call.result[1].id)
    /\ call.result[1].type # call.result[3].type

(***************************************************************************)
(* C12.  A node the user has positioned keeps its coordinates in every     *)
(* later step, automatic layout runs included, as long as it is on the     *)
(* canvas.                                                                 *)
(***************************************************************************)
C12_UserPositionKept ==
    [][\A i \in DOMAIN flowNodes :
           (flowNodes[i].x = DragTo.x /\ flowNodes[i].y = DragTo.y) =>
               \A j \in DOMAIN flowNodes' :
                   flowNodes'[j].id = flowNodes[i].id =>
                       /\ flowNodes'[j].x = flowNodes[i].x
                       /\ flowNodes'[j].y = flowNodes[i].y]_vars

\* the ids of the messages whose parent_id names no message of the array
Orphans(msgs) ==
    {msgs[i].id : i \in {j \in DOMAIN msgs :
                            /\ msgs[j].parent_id # NoParent
                            /\ msgs[j].parent_id \notin Ids(msgs)}}

\* the graph participant p holds
StateOf(p) == [nodes |-> canvasNodes[p], edges |-> canvasEdges[p]]

\* the entries of an array
Entries(seq) == {seq[i] : i \in DOMAIN seq}

\* handleRemoteUpdate has just run for an update of one of these types
Applied(types) == call.fn = "handleRemoteUpdate" /\ call.update.type \in types

\* what participant p shows of the canvas graph: the blocks with their fields
\* (the callbacks are the participant's own) and the edge ids
Graph(p) ==
    [nodes |-> {[id |-> n.id, position |-> n.position, title |-> n.data.title] :
                    n \in Entries(canvasNodes[p])},
     edges |-> Ids(canvasEdges[p])]

\* participant p holds neither block n nor an edge from or to n
Gone(p, n) ==
    /\ n \notin Ids(canvasNodes[p])
    /\ \A e \in Entries(canvasEdges[p]) : e.source # n /\ e.target # n

(***************************************************************************)
(* C13.  Applying a node_add or edge_add a second time changes nothing,    *)
(* so the add of an id the participant already holds (two participants     *)
(* having added the same id concurrently) is a no-op; and no participant's *)
(* node list ever holds two entries with the same id.                      *)
(***************************************************************************)
C13_AddIsIdempotent ==
    /\ \A p \in Participants : NoDup(canvasNodes[p])
    /\ Applied({"node_add", "edge_add"}) =>
           handleRemoteUpdate(canvasNodes[call.p], canvasEdges[call.p],
                              call.update) = StateOf(call.p)

\* a participant has handled the node_add of an id it had added itself
C13_Witness ==
    /\ Applied({"node_add"})
    /\ call.update.payload.id \in Ids(call.before.nodes)
    /\ StateOf(call.p) = call.before
    /\ \E n \in Entries(canvasNodes[call.p]) :
          n.id = call.update.payload.id /\ n.data.onDelete = "broadcast"

C15_UpdateLastWriteWins ==
    Applied({"node_update"}) =>
        LET payload == call.update.payload
        IN  /\ Ids(canvasNodes[call.p]) = Ids(call.before.nodes)
            /\ \A n \in Entries(canvasNodes[call.p]) :
                   n.id = payload.nodeId =>
                       \A f \in DOMAIN payload.changes :
                           n[f] = payload.changes[f]

\* a participant has applied an update that is older than its own last
\* update of the same field of the same block, and the field has changed
C15_Witness ==
    /\ Applied({"node_update"})
    /\ \E n \in Entries(call.before.nodes) :
          /\ n.id = call.update.payload.nodeId
          /\ \E f \in DOMAIN call.update.payload.changes :
                n[f] # call.update.payload.changes[f]
    /\ \E q \in Participants : \E i \in DOMAIN inbox[q] :
          /\ inbox[q][i].userId = call.p
          /\ inbox[q][i].type = "node_update"
          /\ inbox[q][i].payload.nodeId = call.update.payload.nodeId
          /\ DOMAIN inbox[q][i].payload.changes
                 = DOMAIN call.update.payload.changes
          /\ inbox[q][i].timestamp > call.update.timestamp

(***************************************************************************)
(* C16.  After a participant has applied the delete of block n, by its own *)
(* delete button or by a node_delete of a peer, it holds neither block n   *)
(* nor an edge whose source or target is n.                                *)
(***************************************************************************)
C16_DeleteCascades ==
    /\ call.fn = "handleDeleteBlock" => Gone(call.p, call.nodeId)
    /\ Applied({"node_delete"}) => Gone(call.p, call.update.payload.nodeId)

\* a participant has applied the node_delete of a block it held, with an edge
\* at that block
C16_Witness ==
    /\ Applied({"node_delete"})
    /\ call.update.payload.nodeId \in Ids(call.before.nodes)
    /\ \E e \in Entries(call.before.edges) :
          \/ e.source = call.update.payload.nodeId
          \/ e.target = call.update.payload.nodeId

C18_LocalMutationBroadcast ==
    [][\A p \in Participants :
           (/\ <<canvasNodes'[p], canvasEdges'[p]>>
                   # <<canvasNodes[p], canvasEdges[p]>>
            /\ call'.fn # "handleRemoteUpdate")
               => /\ inbox'[p] = inbox[p]
                  /\ \A q \in Participants \ {p} :
                         status[q] # "connecting" =>
                             /\ Len(inbox'[q]) = Len(inbox[q]) + 1
                             /\ inbox'[q][Len(inbox'[q])].event = "canvas_update"
                             /\ inbox'[q][Len(inbox'[q])].userId = p]_vars

(***************************************************************************)
(* C19.  A message whose parent_id names no message is treated as a root:  *)
(* generateShortLabels gives it the first short label of a tree of its own *)
(* and a tree letter, and getLayoutedElements returns a position for it.   *)
(***************************************************************************)
C19_OrphanTreatedAsRoot ==
    /\ call.fn = "generateShortLabels" =>
           \A o \in Orphans(messages) :
               /\ o \in DOMAIN call.result.labels
               /\ o \in DOMAIN call.result.treeLabels
               /\ call.result.labels[o][2] = 1
    /\ call.fn = "getLayoutedElements" =>
           \A o \in Orphans(messages) :
               \E i \in DOMAIN call.result : call.result[i].id = o

\* page.tsx 457-471: what the node of message id shows, given its stored content
Displayed(streaming, id, stored) ==
    IF id \in DOMAIN streaming THEN streaming[id].content ELSE stored

(***************************************************************************)
(* C20.  When callLLM or updateMessage fails during a send, then after     *)
(* handleSend has finished no node is marked as streaming and the          *)
(* provisional responder node shows the failure as its content.            *)
(***************************************************************************)
C20_FailureShownStreamStopped ==
    [][(LlmFail \/ UpdateMessageFail) =>
           /\ \A id \in DOMAIN streamingMessages' :
                  ~streamingMessages'[id].isStreaming
           /\ Displayed(streamingMessages', provisional.id, provisional.content)
                  = "error"]_vars

(***************************************************************************)
(* C21.  Every parent-chain walk that has started returns, whatever the    *)
(* parent map is: the ancestry walk and the walk from a referenced id to   *)
(* its root both leave their loop, also when the parent chain has a cycle. *)
(***************************************************************************)
C21_WalksTerminate ==
    (call.fn \in {"walkAncestry", "walkRoot"}) ~>
        (call.fn \in {"walkAncestry", "walkRoot"} /\ call.done)

\* the ancestry walk alone returns for every parent map
C21_AncestryWalkTerminates ==
    (call.fn = "walkAncestry") ~> (call.fn = "walkAncestry" /\ call.done)

(***************************************************************************)
(* C22.  The sample last passed to updateCursor, a position or null, is    *)
(* eventually the cursor of the participant's presence record, unless a    *)
(* later sample replaces it.                                               *)
(***************************************************************************)
C22_LatestSampleBroadcast ==
    \A p \in Participants : \A s \in CursorPositions \cup {NullCursor} :
        (lastSample[p] = s) ~> (presenceCursor[p] = s \/ lastSample[p] # s)

\* the same for the positions only
C22_LatestPositionBroadcast ==
    \A p \in Participants : \A s \in CursorPositions :
        (lastSample[p] = s) ~> (presenceCursor[p] = s \/ lastSample[p] # s)

\* the referenced ids that name a message of the array, in their order
Resolved(msgs, branchRefs) ==
    LET resolves(refId) == refId \in Ids(msgs)
    IN  SelectSeq(branchRefs, resolves)

(***************************************************************************)
(* C23.  A referenced id that names no message is skipped: the context     *)
(* built with a list of references equals the context built for the same   *)
(* target with the unresolved ids taken out of the list.                   *)
(***************************************************************************)
C23_UnresolvedReferenceSkipped ==
    call.fn = "getContextMessages" =>
        call.result = getContextMessages(messages, call.nodeId,
                                         Resolved(messages, call.branchRefs))

\* a context built with an unresolved reference followed by a reference into
\* another tree than the target's, which is added
C23_Witness ==
    /\ call.fn = "getContextMessages"
    /\ call.nodeId \in Ids(messages)
    /\ Len(call.branchRefs) = 2
    /\ call.branchRefs[1] \notin Ids(messages)
    /\ call.branchRefs[2] \in Ids(messages)
    /\ TopOf(messages, call.branchRefs[2]) # TopOf(messages, call.nodeId)
    /\ call.branchRefs[2] \in Ids(call.result)

(***************************************************************************)
(* C24.  The k-th root of the array, counted from 0, gets tree index k and *)
(* tree letter chr(65 + k mod 26), and every node of its tree gets the     *)
(* same letter and index, in treeLabels, in treeIndices and as the letter  *)
(* of its short label; the index is not reduced modulo 26.                 *)
(***************************************************************************)
C24_TreeLetterAndIndex ==
    call.fn = "generateShortLabels" =>
        LET roots == RootsOf(messages)
        IN \A i \in DOMAIN messages :
               LET id == messages[i].id
                   top == TopOf(messages, id)
               IN \A k \in 0..(Len(roots) - 1) :
                      roots[k + 1].id = top =>
                          /\ id \in DOMAIN call.result.treeIndices
                          /\ call.result.treeIndices[id] = k
                          /\ id \in DOMAIN call.result.treeLabels
                          /\ call.result.treeLabels[id] = 65 + (k % 26)
                          /\ id \in DOMAIN call.result.labels
                          /\ call.result.labels[id][1] = 65 + (k % 26)

\* 27 trees: the 27th has index 26 and the letter A of the first, and a reply
\* in it has the same letter and index
C24_Witness ==
    /\ call.fn = "generateShortLabels"
    /\ Len(RootsOf(messages)) >= 27
    /\ LET roots == RootsOf(messages)
       IN /\ call.result.treeIndices[roots[27].id] = 26
          /\ call.result.treeLabels[roots[27].id] = call.result.treeLabels[roots[1].id]
          /\ call.result.treeIndices[roots[1].id] = 0
          /\ \E i \in DOMAIN messages :
                /\ messages[i].parent_id = roots[27].id
                /\ call.result.treeIndices[messages[i].id] = 26
                /\ call.result.treeLabels[messages[i].id] = 65

\* the number of parent links from id up to the root of its tree
DepthOf(msgs, id) == Cardinality(ChainIds(msgs, id))

\* the ordinal of the short label of id
Ordinal(result, id) == result.labels[id][2]

(***************************************************************************)
(* C25.  Within the tree of each root the ordinals are 1, 2, 3, ... with   *)
(* no gaps, in breadth-first order from the root (ordinal 1): a node at    *)
(* smaller depth has a smaller ordinal than a node at greater depth, the   *)
(* children of a node visited earlier come before those of a node visited  *)
(* later, and siblings come in ascending created_at.                       *)
(***************************************************************************)
C25_OrdinalsBreadthFirst ==
    call.fn = "generateShortLabels" =>
        \A r \in Ids(RootsOf(messages)) :
            LET tree == {id \in Ids(messages) : TopOf(messages, id) = r}
                ord(id) == Ordinal(call.result, id)
                at(id) == messagesById(messages, id)
            IN /\ tree \subseteq DOMAIN call.result.labels
               /\ {ord(id) : id \in tree} = 1..Cardinality(tree)
               /\ ord(r) = 1
               /\ \A a, b \in tree :
                     /\ DepthOf(messages, a) < DepthOf(messages, b) => ord(a) < ord(b)
                     /\ (/\ a # r /\ b # r
                         /\ ord(at(a).parent_id) < ord(at(b).parent_id))
                            => ord(a) < ord(b)
                     /\ (/\ at(a).parent_id = at(b).parent_id
                         /\ at(a).created_at < at(b).created_at)
                            => ord(a) < ord(b)

\* a tree where the order of the walk shows: a grandchild created before a
\* second child of the root gets the later ordinal
C25_Witness ==
    /\ call.fn = "generateShortLabels"
    /\ \E r \in Ids(RootsOf(messages)) : \E c, g, d \in Ids(messages) :
          /\ messagesById(messages, c).parent_id = r
          /\ messagesById(messages, g).parent_id = c
          /\ messagesById(messages, d).parent_id = r
          /\ c # d
          /\ messagesById(messages, g).created_at < messagesById(messages, d).created_at
          /\ Ordinal(call.result, r) = 1
          /\ Ordinal(call.result, c) = 2
          /\ Ordinal(call.result, d) = 3
          /\ Ordinal(call.result, g) = 4

(***************************************************************************)
(* C26.  Once the messages-to-nodes effect has run for the messages of the *)
(* state, the ids of the nodes on the canvas are the ids of the messages;  *)
(* stated for arrays in which every parent_id names a message.             *)
(***************************************************************************)
C26_NodesAreMessages ==
    (messages = lastMessages /\ hasInitialLayout /\ Orphans(messages) = {}) =>
        Ids(flowNodes) = Ids(messages)

(***************************************************************************)
(* C27.  The messages, references and positions useConversation holds are  *)
(* empty or belong to the selected conversation, under every interleaving  *)
(* of conversation switches and load completions.                          *)
(***************************************************************************)
C27_HeldBelongsToSelected ==
    /\ \A i \in DOMAIN messages : messages[i].conversation_id = conversationId
    /\ \A e \in references : ConversationOf(e[1]) = conversationId
    /\ \A id \in DOMAIN nodePositions : ConversationOf(id) = conversationId

\* in this step a sync_request of p is put into the inbox of a participant
SyncRequestSentBy(p) ==
    \E q \in Participants :
        /\ Len(inbox'[q]) > 0
        /\ inbox'[q] = Append(inbox[q], inbox'[q][Len(inbox'[q])])
        /\ inbox'[q][Len(inbox'[q])].event = "sync_request"
        /\ inbox'[q][Len(inbox'[q])].requesterId = p

(***************************************************************************)
(* C28.  A participant sends a sync request only while it is connected: in *)
(* no step does a sync_request of a participant whose cleanup has run      *)
(* reach the channel.                                                      *)
(***************************************************************************)
C28_SyncRequestOnlyWhileConnected ==
    [][\A p \in Participants : SyncRequestSentBy(p) => status[p] = "connected"]_vars

(***************************************************************************)
(* C29.  In the canvas state of every participant the source and the       *)
(* target of every edge are ids of nodes of that participant, whatever     *)
(* local edits were made and whatever events were received.                *)
(***************************************************************************)
C29_EdgesHaveEndpoints ==
    \A p \in Participants : \A i \in DOMAIN canvasEdges[p] :
        /\ canvasEdges[p][i].source \in Ids(canvasNodes[p])
        /\ canvasEdges[p][i].target \in Ids(canvasNodes[p])

(***************************************************************************)
(* C30.  The undo history holds at most 50 entries and, whenever it is not *)
(* empty, 0 <= historyIndex <= history.length - 1.                         *)
(***************************************************************************)
C30_HistoryIndexInRange ==
    /\ Len(history) <= 50
    /\ history # <<>> => (0 <= historyIndex /\ historyIndex <= Len(history) - 1)

====
